---- MODULE Spec2Model ----
(***************************************************************************)
(* Model of the analysis passes of the Go AST analyzer: the goroutine     *)
(* leak detector (DetectLeaks) and the concurrency bug detector           *)
(* (DetectBugs), both walking a parsed syntax tree with ast.Inspect.       *)
(*                                                                         *)
(* A syntax tree node is a record [kind, name, op, line, kids]:            *)
(*   kind  the go/ast node type ("GoStmt", "CallExpr", ...)                *)
(*   name  an identifier's name (Ident), the selected name (SelectorExpr)  *)
(*         or the declared name (FuncDecl), as a sequence of characters    *)
(*   op    the operator of a UnaryExpr ("ARROW"), or "nil" for a           *)
(*         CommClause whose Comm is nil (the default clause)               *)
(*   line  the source line of the node's position (FuncDecl, GoStmt)       *)
(*   kids  the children in the order ast.Walk visits them                  *)
(***************************************************************************)
EXTENDS Integers, Sequences, FiniteSets, TLC

\* tree: the parsed file; config: the analysis configuration of the request;
\* pc: the step the run is at; fi, scores, totals, complexityFindings: the
\* locals of analyzeFile; goroutines, gi, context, leakFindings: DetectLeaks;
\* bugFindings: DetectBugs; findings: the list DetectSmells builds; totalComplexity: the field of the AnalysisResult;
\* scoreArgs, score, high: a score under construction and its verdict;
\* request: the AnalyzeCodeRequest; execution: the locals of Execute; result:
\* the AnalysisResult; lastAdd: the argument and the error of the last
\* AddFinding call; response: the AnalyzeCodeResponse
VARIABLES tree, config, pc, fi, scores, totals, complexityFindings, goroutines, gi, context, leakFindings, bugFindings, findings, totalComplexity, scoreArgs, score, high, request, execution, result, lastAdd, response

detectorVars == <<goroutines, gi, context, leakFindings, bugFindings, findings>>
complexityVars == <<fi, scores, totals, complexityFindings, totalComplexity>>
scoreVars == <<scoreArgs, score, high>>
executeVars == <<request, execution, result, lastAdd, response>>
vars == <<tree, config, pc, detectorVars, complexityVars, scoreVars, executeVars>>

(***************************************************************************)
(* Bounds of the explored inputs.                                          *)
(***************************************************************************)
\* statements in an inline spawn body built from simple statements
MaxBody == 3
\* communication clauses of a generated select statement
MaxClauses == 2
\* channel operations in a spawn-free function body
MaxChanOps == 4
\* lock/unlock calls in a function body
MaxLockOps == 3
\* statements in a function body of the complexity inputs
MaxStmts == 2
\* largest cyclomatic and cognitive value a score is constructed from
MaxScore == 22
\* longest sequence of if statements among the complexity inputs
MaxIfs == 7
\* deepest chain of nested statements among the nesting inputs
MaxNesting == 6
\* longest function body, in lines, among the function-length inputs
MaxLines == 81
\* most entries in the field list of a generated struct
MaxFields == 12
\* most entries in the method list of a generated interface
MaxMethods == 9
\* most file paths in a request
MaxFiles == 2
\* largest argument passed to a with-X operation of the configuration
MaxArg == 3
\* number of distinct finding ids offered to an analysis result
MaxIds == 3

(***************************************************************************)
(* Strings.  Identifier names are sequences of one-character strings so    *)
(* that strings.ToLower and strings.Contains are computed, not assumed.    *)
(***************************************************************************)
UpperLetters == <<"A","B","C","D","E","F","G","H","I","J","K","L","M",
                  "N","O","P","Q","R","S","T","U","V","W","X","Y","Z">>
LowerLetters == <<"a","b","c","d","e","f","g","h","i","j","k","l","m",
                  "n","o","p","q","r","s","t","u","v","w","x","y","z">>

LowerChar(c) ==
    IF \E i \in DOMAIN UpperLetters : UpperLetters[i] = c
    THEN LowerLetters[CHOOSE i \in DOMAIN UpperLetters : UpperLetters[i] = c]
    ELSE c

ToLower(s) == [i \in DOMAIN s |-> LowerChar(s[i])]

Contains(s, sub) ==
    \E i \in 0..(Len(s) - Len(sub)) : SubSeq(s, i + 1, i + Len(sub)) = sub

\* identifier names that occur in the explored programs
S_ch == <<"c","h">>
S_ch1 == <<"c","h","1">>
S_ch2 == <<"c","h","2">>
S_done == <<"d","o","n","e">>
S_quit == <<"q","u","i","t">>
S_stop == <<"s","t","o","p">>
S_cancel == <<"c","a","n","c","e","l">>
S_exit == <<"e","x","i","t">>
S_ctx == <<"c","t","x">>
S_context == <<"c","o","n","t","e","x","t">>
S_parentCtx == <<"p","a","r","e","n","t","C","t","x">>
S_mu == <<"m","u">>
S_time == <<"t","i","m","e">>
S_close == <<"c","l","o","s","e">>
S_worker == <<"w","o","r","k","e","r">>
S_test == <<"t","e","s","t">>
S_v == <<"v">>
S_Done == <<"D","o","n","e">>
S_After == <<"A","f","t","e","r">>
S_Timeout == <<"T","i","m","e","o","u","t">>
S_WithTimeout == <<"W","i","t","h","T","i","m","e","o","u","t">>
S_WithDeadline == <<"W","i","t","h","D","e","a","d","l","i","n","e">>
S_Lock == <<"L","o","c","k">>
S_RLock == <<"R","L","o","c","k">>
S_Unlock == <<"U","n","l","o","c","k">>
S_RUnlock == <<"R","U","n","l","o","c","k">>
S_a == <<"a">>
S_T == <<"T">>
S_I == <<"I">>
S_counter == <<"c","o","u","n","t","e","r">>
S_anonymous == <<"a","n","o","n","y","m","o","u","s","_","g","o","r","o","u","t","i","n","e">>

(***************************************************************************)
(* Syntax tree nodes (go/ast), children in ast.Walk order.                 *)
(***************************************************************************)
Node(k, n, o, l, ks) == [kind |-> k, name |-> n, op |-> o, line |-> l, kids |-> ks]

Ident(n) == Node("Ident", n, "", 0, <<>>)
BasicLit == Node("BasicLit", <<>>, "", 0, <<>>)
\* X.Sel
SelectorExpr(x, sel) == Node("SelectorExpr", sel, "", 0, <<x>>)
\* Fun(Args...)
CallExpr(fun, args) == Node("CallExpr", <<>>, "", 0, <<fun>> \o args)
\* <-X
RecvExpr(x) == Node("UnaryExpr", <<>>, "ARROW", 0, <<x>>)
BlockStmt(list) == Node("BlockStmt", <<>>, "", 0, list)
FuncLit(body) == Node("FuncLit", <<>>, "", 0, <<body>>)
ExprStmt(x) == Node("ExprStmt", <<>>, "", 0, <<x>>)
\* Chan <- Value
SendStmt(ch, val) == Node("SendStmt", <<>>, "", 0, <<ch, val>>)
\* lhs := rhs
AssignStmt(lhs, rhs) == Node("AssignStmt", <<>>, "", 0, <<lhs, rhs>>)
DeferStmt(call) == Node("DeferStmt", <<>>, "", 0, <<call>>)
ReturnStmt == Node("ReturnStmt", <<>>, "", 0, <<>>)
GoStmt(call, l) == Node("GoStmt", <<>>, "", l, <<call>>)
\* case Comm: Body...   (Comm = nil for the default clause)
CommClause(comm, body) == Node("CommClause", <<>>, "comm", 0, <<comm>> \o body)
DefaultClause(body) == Node("CommClause", <<>>, "nil", 0, body)
SelectStmt(clauses) == Node("SelectStmt", <<>>, "", 0, <<BlockStmt(clauses)>>)
FuncDecl(n, l, body) == Node("FuncDecl", n, "", l, <<body>>)
\* X Op Y
BinaryExpr(o, x, y) == Node("BinaryExpr", <<>>, o, 0, <<x, y>>)
\* if Cond Body [else Else]   (els is <<>> or <<Else>>)
IfStmt(cond, body, els) == Node("IfStmt", <<>>, "", 0, <<cond, body>> \o els)
\* for Cond Body
ForStmt(cond, body) == Node("ForStmt", <<>>, "", 0, <<cond, body>>)
\* for range X Body
RangeStmt(x, body) == Node("RangeStmt", <<>>, "", 0, <<x, body>>)
\* case List: Body...
CaseClause(list, body) == Node("CaseClause", <<>>, "", 0, list \o body)
\* switch Tag { clauses }
SwitchStmt(tag, clauses) == Node("SwitchStmt", <<>>, "", 0, <<tag, BlockStmt(clauses)>>)
\* switch Assign.(type) { clauses }
TypeSwitchStmt(assign, clauses) ==
    Node("TypeSwitchStmt", <<>>, "", 0, <<assign, BlockStmt(clauses)>>)

\* { list } with the lines of its braces
BlockStmtSpan(list, lbrace, rbrace) ==
    [kind |-> "BlockStmt", name |-> <<>>, op |-> "", line |-> lbrace, kids |-> list,
     rbrace |-> rbrace]
\* names... Type   (one entry of a field list; no names for an embedded type)
Field(names, type) == Node("Field", <<>>, "", 0, [i \in DOMAIN names |-> Ident(names[i])] \o <<type>>)
FieldList(list) == Node("FieldList", <<>>, "", 0, list)
FuncType == Node("FuncType", <<>>, "", 0, <<>>)
StructType(fields) == Node("StructType", <<>>, "", 0, <<FieldList(fields)>>)
InterfaceType(methods) == Node("InterfaceType", <<>>, "", 0, <<FieldList(methods)>>)
\* Name Type, declared on line l
TypeSpec(n, l, type) == Node("TypeSpec", n, "", l, <<Ident(n), type>>)
\* type ( specs )
GenDecl(specs) == Node("GenDecl", <<>>, "", 0, specs)

\* field accessors of the go/ast node types
Fun(call) == call.kids[1]
Args(call) == Tail(call.kids)
Rhs(assign) == <<assign.kids[2]>>
SelX(sel) == sel.kids[1]
UnaryX(u) == u.kids[1]
Chan(send) == send.kids[1]
Body(n) == n.kids[1]
CommOf(clause) == clause.kids[1]
IsArrow(n) == n.kind = "UnaryExpr" /\ n.op = "ARROW"
Cond(ifStmt) == ifStmt.kids[1]
IfBody(ifStmt) == ifStmt.kids[2]
HasElse(ifStmt) == Len(ifStmt.kids) = 3
Else(ifStmt) == ifStmt.kids[3]
\* the lines of a block's braces (a block built without them stands on one line)
Lbrace(block) == block.line
Rbrace(block) == IF "rbrace" \in DOMAIN block THEN block.rbrace ELSE block.line
\* the body of a for, range, switch or type-switch statement
StmtBody(stmt) == stmt.kids[2]
\* the type of a TypeSpec, the entries of a struct's or interface's field list
TypeOf(typeSpec) == typeSpec.kids[2]
FieldsList(type) == type.kids[1].kids

(***************************************************************************)
(* ast.Inspect with a visitor that always returns true: every node of the  *)
(* subtree, parents before children, children left to right.               *)
(***************************************************************************)
RECURSIVE Preorder(_), PreorderAll(_)
Preorder(n) == <<n>> \o PreorderAll(n.kids)
PreorderAll(ns) ==
    IF ns = <<>> THEN <<>> ELSE Preorder(Head(ns)) \o PreorderAll(Tail(ns))

(***************************************************************************)
(* Findings (entities.AnalysisFinding).  The id is the tuple of the parts  *)
(* fmt.Sprintf joins; the message is kept as the values it embeds.         *)
(***************************************************************************)
NoDesc == [what |-> "none", name |-> <<>>, ops |-> <<>>]

NewAnalysisFinding(id, findingType, line, message, severity) ==
    [id |-> id, type |-> findingType, line |-> line, msg |-> message,
     severity |-> severity]

(***************************************************************************)
(* Complexity scores (valueobjects.ComplexityScore) and the complexity      *)
(* calculator.                                                             *)
(***************************************************************************)
\* the zero value ComplexityScore{}
ZeroScore == [cyclomatic |-> 0, cognitive |-> 0]

\* the score and whether an error is returned with it
NewComplexityScore(cyclomatic, cognitive) ==
    IF cyclomatic < 1 \/ cognitive < 0
    THEN [score |-> ZeroScore, err |-> TRUE]
    ELSE [score |-> [cyclomatic |-> cyclomatic, cognitive |-> cognitive], err |-> FALSE]

\* faulty variant: the thresholds themselves already count as high
IsHighComplexityInclusive(c) == c.cyclomatic >= 15 \/ c.cognitive >= 20

IsHighComplexity(c) == c.cyclomatic > 15 \/ c.cognitive > 20

IsShortCircuit(n) == n.kind = "BinaryExpr" /\ n.op \in {"LAND", "LOR"}

\* the visitor of calculateCyclomaticComplexity
CyclomaticVisit(n, complexity) ==
    IF \/ n.kind \in {"IfStmt", "ForStmt", "RangeStmt", "SwitchStmt",
                       "TypeSwitchStmt", "SelectStmt"}
       \/ IsShortCircuit(n)
    THEN complexity + 1 ELSE complexity

RECURSIVE CyclomaticVisitAll(_, _)
CyclomaticVisitAll(ns, complexity) ==
    IF ns = <<>> THEN complexity
    ELSE CyclomaticVisitAll(Tail(ns), CyclomaticVisit(Head(ns), complexity))

\* faulty variant: || is not counted
CalculateCyclomaticComplexityWithoutOr(node) ==
    1 + Len(SelectSeq(Preorder(node),
                LAMBDA n : CyclomaticVisit(n, 0) = 1 /\ n.op # "LOR"))

CalculateCyclomaticComplexity(node) == CyclomaticVisitAll(Preorder(node), 1)

RECURSIVE CalculateCognitiveComplexity(_, _), CognitiveVisitAll(_, _)
\* the visitor of calculateCognitiveComplexity; st holds the two variables
\* the closure updates, isRoot is n == node
CognitiveVisit(n, isRoot, st) ==
    CASE n.kind = "IfStmt" ->
            LET elseIf ==
                    IF HasElse(n) /\ Else(n).kind = "IfStmt"
                    THEN CalculateCognitiveComplexity(
                            BlockStmt(<<IfStmt(Cond(Else(n)), IfBody(Else(n)), <<>>)>>),
                            st.nesting)
                    ELSE 0
            IN  [st EXCEPT !.complexity = @ + 1 + st.nesting + elseIf]
      [] n.kind \in {"ForStmt", "RangeStmt", "SwitchStmt", "TypeSwitchStmt", "SelectStmt"} ->
            [st EXCEPT !.complexity = @ + 1 + st.nesting]
      [] IsShortCircuit(n) -> [st EXCEPT !.complexity = @ + 1 + st.nesting]
      [] n.kind = "BlockStmt" ->
            IF ~isRoot THEN [st EXCEPT !.nesting = @ + 1] ELSE st
      [] OTHER -> st

CognitiveVisitAll(ns, st) ==
    IF ns = <<>> THEN st
    ELSE CognitiveVisitAll(Tail(ns), CognitiveVisit(Head(ns), FALSE, st))

CalculateCognitiveComplexity(node, nesting) ==
    CognitiveVisitAll(Tail(Preorder(node)),
        CognitiveVisit(node, TRUE, [complexity |-> 0, nesting |-> nesting])).complexity

CalculateComplexity(node) ==
    NewComplexityScore(CalculateCyclomaticComplexity(node),
                       CalculateCognitiveComplexity(node, 0))

(***************************************************************************)
(* Configuration (valueobjects.AnalysisConfiguration, config.LoadConfig).   *)
(***************************************************************************)
DefaultAnalysisConfiguration ==
    [maxCyclomaticComplexity |-> 15, maxCognitiveComplexity |-> 20,
     maxFunctionLength |-> 80, enableSmellDetection |-> TRUE,
     severityThreshold |-> "Warning"]

WithMaxCyclomaticComplexity(c, max) == [c EXCEPT !.maxCyclomaticComplexity = max]
WithMaxCognitiveComplexity(c, max) == [c EXCEPT !.maxCognitiveComplexity = max]
WithMaxFunctionLength(c, max) == [c EXCEPT !.maxFunctionLength = max]
WithSmellDetection(c, enabled) == [c EXCEPT !.enableSmellDetection = enabled]

\* env.cyclomatic, env.cognitive and env.functionLength are what getEnvInt
\* returns for GOAST_MAX_CYCLOMATIC, GOAST_MAX_COGNITIVE and
\* GOAST_MAX_FUNCTION_LENGTH (0 when unset)
LoadAnalysisConfig(env) ==
    LET c1 == IF env.cyclomatic > 0
              THEN WithMaxCyclomaticComplexity(DefaultAnalysisConfiguration, env.cyclomatic)
              ELSE DefaultAnalysisConfiguration
        c2 == IF env.cognitive > 0 THEN WithMaxCognitiveComplexity(c1, env.cognitive) ELSE c1
    IN  IF env.functionLength > 0 THEN WithMaxFunctionLength(c2, env.functionLength) ELSE c2

\* the finding analyzeFile creates for a function of high complexity
ComplexityFinding(funcDecl, complexity) ==
    NewAnalysisFinding(<<"complexity", funcDecl.name, funcDecl.line>>, "Complexity",
        funcDecl.line,
        [label |-> "complexity", fn |-> funcDecl.name, confidence |-> "",
         desc |-> complexity],
        IF complexity.cyclomatic > 20 \/ complexity.cognitive > 30
        THEN "Error" ELSE "Warning")

(***************************************************************************)
(* The analysis result (aggregates.AnalysisResult) and the response of      *)
(* Execute.                                                                *)
(***************************************************************************)
\* AnalysisResult{}: every field at its zero value
ZeroResult ==
    [id |-> "", analyzedFiles |-> <<>>, findings |-> <<>>,
     configuration |-> [maxCyclomaticComplexity |-> 0, maxCognitiveComplexity |-> 0,
                        maxFunctionLength |-> 0, enableSmellDetection |-> FALSE,
                        severityThreshold |-> "Info"],
     totalFiles |-> 0, totalFunctions |-> 0, totalComplexity |-> ZeroScore,
     complete |-> FALSE]

NewAnalysisResult(id, cfg) ==
    IF id = "" THEN [result |-> ZeroResult, err |-> TRUE]
    ELSE [result |-> [ZeroResult EXCEPT !.id = id, !.configuration = cfg], err |-> FALSE]

\* faulty variant: a finding whose id is present is appended all the same
AddFindingUnchecked(ar, finding) ==
    [result |-> [ar EXCEPT !.findings = Append(@, finding)],
     err |-> \E i \in DOMAIN ar.findings : ar.findings[i].id = finding.id]

AddFinding(ar, finding) ==
    IF \E i \in DOMAIN ar.findings : ar.findings[i].id = finding.id
    THEN [result |-> ar, err |-> TRUE]
    ELSE [result |-> [ar EXCEPT !.findings = Append(@, finding)], err |-> FALSE]

AddAnalyzedFile(ar, filePath) ==
    IF \E i \in DOMAIN ar.analyzedFiles : ar.analyzedFiles[i] = filePath THEN ar
    ELSE [ar EXCEPT !.analyzedFiles = Append(@, filePath),
                    !.totalFiles = Len(ar.analyzedFiles) + 1]

SetTotalFunctions(ar, count) == [ar EXCEPT !.totalFunctions = count]
SetTotalComplexity(ar, complexity) == [ar EXCEPT !.totalComplexity = complexity]
Complete(ar) == [ar EXCEPT !.complete = TRUE]

\* no file has been analysed, no AddFinding call made, no response returned
NoFileResult ==
    [findings |-> <<>>, functionCount |-> 0, totalCyclomatic |-> 0, totalCognitive |-> 0]
NoAdd == [called |-> FALSE, finding |-> <<>>, err |-> FALSE]
NoResponse == [returned |-> FALSE, analysisResult |-> ZeroResult, success |-> FALSE,
               error |-> "nil"]

(***************************************************************************)
(* Structural smells (ASTSmellDetector): long functions, deep nesting,      *)
(* large structs and interfaces.                                           *)
(***************************************************************************)
Max(a, b) == IF a >= b THEN a ELSE b

CountLinesInBlock(block) ==
    IF block.kids = <<>> THEN 0 ELSE Rbrace(block) - Lbrace(block) + 1

\* the inner function inspect of calculateMaxNesting: the largest value of
\* currentNesting it is called with in the subtree of node
RECURSIVE InspectNesting(_, _), InspectNestingAll(_, _)
InspectNesting(node, currentNesting) ==
    CASE node.kind = "IfStmt" ->
            Max(InspectNesting(IfBody(node), currentNesting + 1),
                IF ~HasElse(node) THEN currentNesting
                ELSE IF Else(node).kind = "IfStmt"
                     THEN InspectNesting(Else(node), currentNesting)
                ELSE IF Else(node).kind = "BlockStmt"
                     THEN InspectNesting(Else(node), currentNesting + 1)
                ELSE currentNesting)
      [] node.kind \in {"ForStmt", "RangeStmt", "SwitchStmt", "TypeSwitchStmt"} ->
            InspectNesting(StmtBody(node), currentNesting + 1)
      [] node.kind = "SelectStmt" -> InspectNesting(Body(node), currentNesting + 1)
      [] node.kind = "BlockStmt" -> InspectNestingAll(node.kids, currentNesting)
      [] OTHER -> currentNesting
InspectNestingAll(stmts, currentNesting) ==
    IF stmts = <<>> THEN currentNesting
    ELSE Max(InspectNesting(Head(stmts), currentNesting),
             InspectNestingAll(Tail(stmts), currentNesting))

CalculateMaxNesting(block) == InspectNesting(block, 0)

SmellFinding(idPrefix, name, line, label, desc) ==
    NewAnalysisFinding(<<idPrefix, name, line>>, "Smell", line,
        [label |-> label, fn |-> name, confidence |-> "", desc |-> desc], "Warning")

DetectFunctionSmells(funcDecl, cfg) ==
    IF funcDecl.kids = <<>> THEN <<>>
    ELSE LET lineCount == CountLinesInBlock(Body(funcDecl))
             maxNesting == CalculateMaxNesting(Body(funcDecl))
         IN  (IF lineCount > cfg.maxFunctionLength
              THEN <<SmellFinding("long_function", funcDecl.name, funcDecl.line, "too long",
                        [lines |-> lineCount, max |-> cfg.maxFunctionLength])>>
              ELSE <<>>)
             \o (IF maxNesting > 4
                 THEN <<SmellFinding("deep_nesting", funcDecl.name, funcDecl.line,
                        "deep nesting", [level |-> maxNesting])>>
                 ELSE <<>>)

CountStructFields(structType) == Len(FieldsList(structType))
CountInterfaceMethods(interfaceType) == Len(FieldsList(interfaceType))

\* detectDeclarationSmells, one round of the loop over genDecl.Specs
SpecSmells(spec) ==
    IF spec.kind # "TypeSpec" THEN <<>>
    ELSE (IF TypeOf(spec).kind = "StructType" /\ CountStructFields(TypeOf(spec)) > 10
          THEN <<SmellFinding("god_struct", spec.name, spec.line, "too many fields",
                    [fields |-> CountStructFields(TypeOf(spec))])>>
          ELSE <<>>)
         \o (IF TypeOf(spec).kind = "InterfaceType"
                 /\ CountInterfaceMethods(TypeOf(spec)) > 7
             THEN <<SmellFinding("interface_pollution", spec.name, spec.line,
                    "too many methods", [methods |-> CountInterfaceMethods(TypeOf(spec))])>>
             ELSE <<>>)

RECURSIVE SpecSmellsAll(_)
SpecSmellsAll(specs) ==
    IF specs = <<>> THEN <<>> ELSE SpecSmells(Head(specs)) \o SpecSmellsAll(Tail(specs))

DetectDeclarationSmells(genDecl) == SpecSmellsAll(genDecl.kids)

\* DetectSmells appends what a detector returned unless it returned an error
\* faulty variant: a detector's findings are dropped when the list already
\* holds findings
MergeFindingsWhenEmpty(fs, returned) ==
    IF returned.err \/ fs # <<>> THEN fs ELSE fs \o returned.findings

MergeFindings(fs, returned) ==
    IF returned.err THEN fs ELSE fs \o returned.findings

\* the ast.Inspect walk of DetectSmells over the nodes ns, in visiting order
RECURSIVE StructuralSmells(_, _)
StructuralSmells(ns, cfg) ==
    IF ns = <<>> THEN <<>>
    ELSE (CASE Head(ns).kind = "FuncDecl" -> DetectFunctionSmells(Head(ns), cfg)
            [] Head(ns).kind = "GenDecl" -> DetectDeclarationSmells(Head(ns))
            [] OTHER -> <<>>)
         \o StructuralSmells(Tail(ns), cfg)

(***************************************************************************)
(* Goroutine leak detector.                                                *)
(***************************************************************************)
NewContext(fn, l) ==
    [hasChannelReceive |-> FALSE, hasChannelClose |-> FALSE,
     hasSelectStmt |-> FALSE, hasContextCancel |-> FALSE,
     hasTimeout |-> FALSE, hasPrematureReturn |-> FALSE,
     hasChannelSend |-> FALSE, hasDoubleSend |-> FALSE,
     hasDeferClose |-> FALSE, functionName |-> fn, position |-> l]

\* faulty variant: the flags of the previous spawn are carried over
CarriedContext(prev, goStmt) ==
    [prev EXCEPT !.functionName = S_anonymous, !.position = goStmt.line]

\* the context analyzeGoroutine allocates for a spawn; prev is the context the
\* detector used for the spawn before it
FreshContext(prev, goStmt) == NewContext(S_anonymous, goStmt.line)

CollectGoroutines(node) ==
    SelectSeq(Preorder(node), LAMBDA n : n.kind = "GoStmt")

AnalyzeCallExpression(call, ctx) ==
    LET f == Fun(call)
        c1 == IF f.kind = "Ident" /\ f.name = S_close
              THEN [ctx EXCEPT !.hasChannelClose = TRUE] ELSE ctx
    IN  IF /\ f.kind = "SelectorExpr"
           /\ SelX(f).kind = "Ident"
           /\ (SelX(f).name = S_ctx \/ SelX(f).name = S_context)
           /\ f.name = S_Done
        THEN [c1 EXCEPT !.hasContextCancel = TRUE]
        ELSE c1

IsContextDoneCall(expr) ==
    /\ expr.kind = "SelectorExpr"
    /\ expr.name = S_Done
    /\ SelX(expr).kind = "Ident"
    /\ \/ Contains(ToLower(SelX(expr).name), S_ctx)
       \/ Contains(ToLower(SelX(expr).name), S_context)

IsDoneChannel(expr) ==
    /\ expr.kind = "Ident"
    /\ LET name == ToLower(expr.name)
       IN  \/ Contains(name, S_done)
           \/ Contains(name, S_quit)
           \/ Contains(name, S_stop)
           \/ Contains(name, S_cancel)
           \/ Contains(name, S_exit)

IsTimeoutCall(call) ==
    /\ call.kind = "CallExpr"
    /\ Fun(call).kind = "SelectorExpr"
    /\ SelX(Fun(call)).kind = "Ident"
    /\ \/ Fun(call).name = S_After /\ SelX(Fun(call)).name = S_time
       \/ /\ Fun(call).name \in {S_WithTimeout, S_WithDeadline}
          /\ Contains(ToLower(SelX(Fun(call)).name), S_context)

\* the clauses of selectStmt.Body.List
Clauses(selectStmt) == Body(selectStmt).kids

\* the expression of a clause's communication when it is an ExprStmt
ClauseIsExpr(clause) ==
    clause.kind = "CommClause" /\ clause.op # "nil" /\ CommOf(clause).kind = "ExprStmt"

ClauseHasContextDone(clause) ==
    /\ ClauseIsExpr(clause)
    /\ LET comm == CommOf(clause).kids[1]
       IN  IsArrow(comm) /\ (IsContextDoneCall(UnaryX(comm)) \/ IsDoneChannel(UnaryX(comm)))

ClauseHasTimeout(clause) ==
    /\ ClauseIsExpr(clause)
    /\ LET comm == CommOf(clause).kids[1]
       IN  \/ IsArrow(comm) /\ IsTimeoutCall(UnaryX(comm))
           \/ IsTimeoutCall(comm)

\* faulty variant: a default clause is not an escape hatch
AnalyzeSelectStatementNoDefault(selectStmt, ctx) ==
    LET cl == Clauses(selectStmt)
        hasContextDone == \E i \in DOMAIN cl : ClauseHasContextDone(cl[i])
        hasTimeout == \E i \in DOMAIN cl : ClauseHasTimeout(cl[i])
        c1 == IF hasContextDone \/ hasTimeout
              THEN [ctx EXCEPT !.hasContextCancel = TRUE] ELSE ctx
    IN  IF hasTimeout THEN [c1 EXCEPT !.hasTimeout = TRUE] ELSE c1

AnalyzeSelectStatement(selectStmt, ctx) ==
    LET cl == Clauses(selectStmt)
        hasDefault == \E i \in DOMAIN cl : cl[i].kind = "CommClause" /\ cl[i].op = "nil"
        hasContextDone == \E i \in DOMAIN cl : ClauseHasContextDone(cl[i])
        hasTimeout == \E i \in DOMAIN cl : ClauseHasTimeout(cl[i])
        c1 == IF hasDefault \/ hasContextDone \/ hasTimeout
              THEN [ctx EXCEPT !.hasContextCancel = TRUE] ELSE ctx
    IN  IF hasTimeout THEN [c1 EXCEPT !.hasTimeout = TRUE] ELSE c1

SameChannel(chan1, chan2) ==
    chan1.kind = "Ident" /\ chan2.kind = "Ident" /\ chan1.name = chan2.name

CheckForDoubleSend(block, sendStmt, ctx) ==
    LET sends == SelectSeq(Preorder(block),
                     LAMBDA n : n.kind = "SendStmt" /\ SameChannel(Chan(sendStmt), Chan(n)))
    IN  IF Len(sends) > 1 THEN [ctx EXCEPT !.hasDoubleSend = TRUE] ELSE ctx

CheckDeferClose(deferStmt, ctx) ==
    IF Fun(deferStmt.kids[1]).kind = "Ident" /\ Fun(deferStmt.kids[1]).name = S_close
    THEN [ctx EXCEPT !.hasDeferClose = TRUE] ELSE ctx

CheckPrematureReturn(block, returnStmt, ctx) ==
    IF ctx.hasChannelReceive \/ ctx.hasChannelSend
    THEN [ctx EXCEPT !.hasPrematureReturn = TRUE] ELSE ctx

\* faulty variant: only a receive on the right of an assignment counts as a receive
VisitBodyNodeAssignOnly(block, n, ctx) ==
    CASE n.kind = "SendStmt" ->
            CheckForDoubleSend(block, n, [ctx EXCEPT !.hasChannelSend = TRUE])
      [] n.kind = "AssignStmt" ->
            IF \E i \in DOMAIN Rhs(n) : IsArrow(Rhs(n)[i])
            THEN [ctx EXCEPT !.hasChannelReceive = TRUE] ELSE ctx
      [] n.kind = "CallExpr" -> AnalyzeCallExpression(n, ctx)
      [] n.kind = "SelectStmt" ->
            AnalyzeSelectStatement(n, [ctx EXCEPT !.hasSelectStmt = TRUE])
      [] n.kind = "DeferStmt" -> CheckDeferClose(n, ctx)
      [] n.kind = "ReturnStmt" -> CheckPrematureReturn(block, n, ctx)
      [] OTHER -> ctx

\* one call of the visitor analyzeFunctionBody hands to ast.Inspect
VisitBodyNode(block, n, ctx) ==
    CASE n.kind = "SendStmt" ->
            CheckForDoubleSend(block, n, [ctx EXCEPT !.hasChannelSend = TRUE])
      [] n.kind = "UnaryExpr" ->
            IF n.op = "ARROW" THEN [ctx EXCEPT !.hasChannelReceive = TRUE] ELSE ctx
      [] n.kind = "AssignStmt" ->
            IF \E i \in DOMAIN Rhs(n) : IsArrow(Rhs(n)[i])
            THEN [ctx EXCEPT !.hasChannelReceive = TRUE] ELSE ctx
      [] n.kind = "CallExpr" -> AnalyzeCallExpression(n, ctx)
      [] n.kind = "SelectStmt" ->
            AnalyzeSelectStatement(n, [ctx EXCEPT !.hasSelectStmt = TRUE])
      [] n.kind = "DeferStmt" -> CheckDeferClose(n, ctx)
      [] n.kind = "ReturnStmt" -> CheckPrematureReturn(block, n, ctx)
      [] OTHER -> ctx

RECURSIVE VisitAll(_, _, _)
VisitAll(block, ns, ctx) ==
    IF ns = <<>> THEN ctx
    ELSE VisitAll(block, Tail(ns), VisitBodyNode(block, Head(ns), ctx))

AnalyzeFunctionBody(block, ctx) == VisitAll(block, Preorder(block), ctx)

RECURSIVE AnalyzeLiteralArgs(_, _)
AnalyzeLiteralArgs(args, ctx) ==
    IF args = <<>> THEN ctx
    ELSE AnalyzeLiteralArgs(Tail(args),
            IF Head(args).kind = "FuncLit"
            THEN AnalyzeFunctionBody(Body(Head(args)), ctx) ELSE ctx)

\* faulty variant: a spawn of a named function is resolved to the declaration
\* of that name and its body is inspected
AnalyzeGoroutineResolvingNames(goStmt, c0) ==
    LET f == Fun(goStmt.kids[1])
        decls == SelectSeq(tree.kids,
                    LAMBDA d : d.kind = "FuncDecl" /\ f.kind = "Ident" /\ d.name = f.name)
    IN  IF f.kind = "FuncLit" THEN AnalyzeFunctionBody(Body(f), c0)
        ELSE IF decls # <<>> THEN AnalyzeFunctionBody(Body(decls[1]), c0)
        ELSE c0

\* analyzeGoroutine up to its call of checkLeakPatterns; c0 is the context it
\* allocated
AnalyzeGoroutine(goStmt, c0) ==
    LET f == Fun(goStmt.kids[1])
        c1 == IF f.kind = "CallExpr" /\ Fun(f).kind = "Ident"
              THEN [c0 EXCEPT !.functionName = Fun(f).name] ELSE c0
        c2 == IF f.kind = "FuncLit" THEN AnalyzeFunctionBody(Body(f), c1) ELSE c1
    IN  IF f.kind = "CallExpr" THEN AnalyzeLiteralArgs(Args(f), c2) ELSE c2

LeakFinding(ctx, label, confidence, severity) ==
    NewAnalysisFinding(<<label, ctx.functionName, ctx.position>>, "Smell",
        ctx.position,
        [label |-> label, fn |-> ctx.functionName, confidence |-> confidence,
         desc |-> NoDesc],
        severity)

\* faulty variant: the receive rule forgets the close check
CheckLeakPatternsIgnoringClose(ctx) ==
    LET receive ==
            IF ctx.hasChannelReceive /\ ~ctx.hasContextCancel
            THEN <<LeakFinding(ctx, "channel_receive_leak", "0.42", "Warning")>>
            ELSE <<>>
        select ==
            IF ctx.hasSelectStmt /\ ~ctx.hasContextCancel /\ ~ctx.hasTimeout
            THEN <<LeakFinding(ctx, "select_statement_leak", "0.86", "Error")>>
            ELSE <<>>
        send ==
            IF ctx.hasChannelSend /\ ctx.hasPrematureReturn /\ ~ctx.hasDeferClose
            THEN <<LeakFinding(ctx, "channel_send_leak", "0.57", "Warning")>>
            ELSE <<>>
    IN  receive \o select \o send

CheckLeakPatterns(ctx) ==
    LET hasOperations ==
            ctx.hasChannelReceive \/ ctx.hasChannelSend \/ ctx.hasSelectStmt
        receive ==
            IF ctx.hasChannelReceive /\ ~ctx.hasChannelClose /\ ~ctx.hasContextCancel
            THEN <<LeakFinding(ctx, "channel_receive_leak", "0.42", "Warning")>>
            ELSE <<>>
        select ==
            IF ctx.hasSelectStmt /\ ~ctx.hasContextCancel /\ ~ctx.hasTimeout
            THEN <<LeakFinding(ctx, "select_statement_leak", "0.86", "Error")>>
            ELSE <<>>
        send ==
            IF ctx.hasChannelSend /\ ctx.hasPrematureReturn /\ ~ctx.hasDeferClose
            THEN <<LeakFinding(ctx, "channel_send_leak", "0.57", "Warning")>>
            ELSE <<>>
    IN  IF ~hasOperations THEN <<>> ELSE receive \o select \o send

(***************************************************************************)
(* Concurrency bug detector.                                               *)
(***************************************************************************)
\* append(m[k], tag) on a map[string][]string
Tally(m, k, tag) ==
    IF k \in DOMAIN m THEN [m EXCEPT ![k] = Append(@, tag)]
    ELSE [x \in DOMAIN m \cup {k} |-> IF x = k THEN <<tag>> ELSE m[x]]

NoOps == [x \in {} |-> <<>>]

Count(ops, tag) == Len(SelectSeq(ops, LAMBDA o : o = tag))

\* every order in which a range over a map can produce the keys in S
Orderings(S) ==
    {s \in [1..Cardinality(S) -> S] :
        \A i, j \in 1..Cardinality(S) : i # j => s[i] # s[j]}

MutexTag(sel) ==
    IF sel \in {S_Lock, S_RLock} THEN "lock"
    ELSE IF sel \in {S_Unlock, S_RUnlock} THEN "unlock"
    ELSE "none"

\* the second part of analyzeCallForBlocking: every selector below the call
\* whose receiver already has an entry is tallied (again)
RECURSIVE TallyNested(_, _)
TallyNested(ns, mutexOps) ==
    IF ns = <<>> THEN mutexOps
    ELSE LET n == Head(ns)
         IN  TallyNested(Tail(ns),
                IF /\ n.kind = "SelectorExpr"
                   /\ SelX(n).kind = "Ident"
                   /\ SelX(n).name \in DOMAIN mutexOps
                   /\ MutexTag(n.name) # "none"
                THEN Tally(mutexOps, SelX(n).name, MutexTag(n.name))
                ELSE mutexOps)

\* faulty variant: a call is tallied once, the walk below the call is left out
AnalyzeCallForBlockingOnce(call, mutexOps) ==
    LET f == Fun(call)
    IN  IF /\ f.kind = "SelectorExpr"
           /\ SelX(f).kind = "Ident"
           /\ MutexTag(f.name) # "none"
        THEN Tally(mutexOps, SelX(f).name, MutexTag(f.name))
        ELSE mutexOps

AnalyzeCallForBlocking(call, mutexOps) ==
    LET f == Fun(call)
        m1 == IF /\ f.kind = "SelectorExpr"
                 /\ SelX(f).kind = "Ident"
                 /\ MutexTag(f.name) # "none"
              THEN Tally(mutexOps, SelX(f).name, MutexTag(f.name))
              ELSE mutexOps
    IN  TallyNested(Preorder(call), m1)

BugIsTimeoutCall(call) ==
    /\ Fun(call).kind = "SelectorExpr"
    /\ (Fun(call).name = S_After \/ Contains(Fun(call).name, S_Timeout))

BugIsContextDoneCall(expr) ==
    LET named(sel) ==
            /\ sel.kind = "SelectorExpr"
            /\ sel.name = S_Done
            /\ SelX(sel).kind = "Ident"
            /\ \/ Contains(ToLower(SelX(sel).name), S_ctx)
               \/ Contains(ToLower(SelX(sel).name), S_context)
    IN  \/ named(expr)
        \/ expr.kind = "CallExpr" /\ named(Fun(expr))

BugClauseHasContextDone(clause) ==
    /\ ClauseIsExpr(clause)
    /\ LET comm == CommOf(clause).kids[1]
       IN  IsArrow(comm) /\ BugIsContextDoneCall(UnaryX(comm))

BugClauseHasTimeout(clause) ==
    /\ ClauseIsExpr(clause)
    /\ LET comm == CommOf(clause).kids[1]
       IN  /\ IsArrow(comm)
           /\ UnaryX(comm).kind = "CallExpr"
           /\ BugIsTimeoutCall(UnaryX(comm))

\* faulty variant: two communication clauses are not yet enough
IsPotentiallyBlockingSelectOverTwo(selectStmt) ==
    LET cl == Clauses(selectStmt)
        comms == {i \in DOMAIN cl : cl[i].kind = "CommClause"}
    IN  /\ Cardinality({i \in comms : cl[i].op # "nil"}) > 2
        /\ ~\E i \in comms : cl[i].op = "nil"
        /\ ~\E i \in comms : BugClauseHasTimeout(cl[i])
        /\ ~\E i \in comms : BugClauseHasContextDone(cl[i])

IsPotentiallyBlockingSelect(selectStmt) ==
    LET cl == Clauses(selectStmt)
        comms == {i \in DOMAIN cl : cl[i].kind = "CommClause"}
        hasDefault == \E i \in comms : cl[i].op = "nil"
        caseCount == Cardinality({i \in comms : cl[i].op # "nil"})
        hasTimeout == \E i \in comms : BugClauseHasTimeout(cl[i])
        hasContextDone == \E i \in comms : BugClauseHasContextDone(cl[i])
    IN  caseCount >= 2 /\ ~hasDefault /\ ~hasTimeout /\ ~hasContextDone

\* faulty variant: the imbalance test is not strict
HasPotentialChannelBlockNonStrict(ops) ==
    LET sendCount == Count(ops, "send")
        receiveCount == Count(ops, "receive")
    IN  IF sendCount + receiveCount < 2 THEN FALSE
        ELSE \/ sendCount >= receiveCount * 2 /\ sendCount > 1
             \/ receiveCount >= sendCount * 2 /\ receiveCount > 1

HasPotentialChannelBlock(ops) ==
    LET sendCount == Count(ops, "send")
        receiveCount == Count(ops, "receive")
        totalOps == sendCount + receiveCount
    IN  IF totalOps < 2 THEN FALSE
        ELSE \/ sendCount > receiveCount * 2 /\ sendCount > 1
             \/ receiveCount > sendCount * 2 /\ receiveCount > 1

\* faulty variant: one more unmatched lock is tolerated
HasPotentialDeadlockLenient(ops) ==
    Count(ops, "lock") > Count(ops, "unlock") + 2

HasPotentialDeadlock(ops) ==
    LET lockCount == Count(ops, "lock")
        unlockCount == Count(ops, "unlock")
    IN  lockCount > unlockCount + 1

SelectPattern ==
    [cause |-> "channel_misuse",
     description |-> [what |-> "select", name |-> <<>>, ops |-> <<>>]]
ChannelPattern(channelName, ops) ==
    [cause |-> "channel_misuse",
     description |-> [what |-> "channel", name |-> channelName, ops |-> ops]]
MutexPattern(mutexName, ops) ==
    [cause |-> "deadlock",
     description |-> [what |-> "mutex", name |-> mutexName, ops |-> ops]]

\* faulty variant: the walk does not descend below a spawn statement
RECURSIVE BlockingVisitedOutsideSpawns(_), OutsideSpawnsAll(_)
BlockingVisitedOutsideSpawns(block) ==
    <<block>> \o (IF block.kind = "GoStmt" THEN <<>> ELSE OutsideSpawnsAll(block.kids))
OutsideSpawnsAll(ns) ==
    IF ns = <<>> THEN <<>>
    ELSE BlockingVisitedOutsideSpawns(Head(ns)) \o OutsideSpawnsAll(Tail(ns))

\* the nodes the visitor of analyzeBlockingPatterns is called with: it returns
\* true at every node, the statements of spawn bodies included
BlockingVisited(block) == Preorder(block)

\* analyzeBlockingPatterns: the set of pattern lists it can return.  The walk
\* is deterministic; the two loops that range over the tally maps produce the
\* flagged keys in an order Go leaves unspecified.
RECURSIVE AnalyzeBlockingPatterns(_), BlockingWalk(_, _)
AnalyzeBlockingPatterns(block) ==
    LET st == BlockingWalk(BlockingVisited(block),
                  [alts |-> {<<>>}, channelOps |-> NoOps, mutexOps |-> NoOps])
        flaggedCh == {k \in DOMAIN st.channelOps :
                         HasPotentialChannelBlock(st.channelOps[k])}
        flaggedMu == {k \in DOMAIN st.mutexOps :
                         HasPotentialDeadlock(st.mutexOps[k])}
    IN  {a \o [i \in DOMAIN oc |-> ChannelPattern(oc[i], st.channelOps[oc[i]])]
           \o [i \in DOMAIN om |-> MutexPattern(om[i], st.mutexOps[om[i]])] :
            a \in st.alts, oc \in Orderings(flaggedCh), om \in Orderings(flaggedMu)}
BlockingWalk(ns, st) ==
    IF ns = <<>> THEN st
    ELSE LET n == Head(ns)
             st1 ==
               CASE n.kind = "SendStmt" ->
                      IF Chan(n).kind = "Ident"
                      THEN [st EXCEPT !.channelOps = Tally(@, Chan(n).name, "send")]
                      ELSE st
                 [] n.kind = "UnaryExpr" ->
                      IF n.op = "ARROW" /\ UnaryX(n).kind = "Ident"
                      THEN [st EXCEPT !.channelOps = Tally(@, UnaryX(n).name, "receive")]
                      ELSE st
                 [] n.kind = "CallExpr" ->
                      [st EXCEPT !.mutexOps = AnalyzeCallForBlocking(n, @)]
                 [] n.kind = "GoStmt" ->
                      IF Fun(n.kids[1]).kind = "FuncLit"
                      THEN [st EXCEPT !.alts =
                              {a \o g : a \in @,
                                  g \in AnalyzeBlockingPatterns(Body(Fun(n.kids[1])))}]
                      ELSE st
                 [] n.kind = "SelectStmt" ->
                      IF IsPotentiallyBlockingSelect(n)
                      THEN [st EXCEPT !.alts = {Append(a, SelectPattern) : a \in @}]
                      ELSE st
                 [] OTHER -> st
         IN  BlockingWalk(Tail(ns), st1)

BugMessageLabel(cause) ==
    CASE cause = "channel_misuse" -> "channel misuse"
      [] cause = "shared_memory_sync" -> "shared memory synchronization issue"
      [] cause = "deadlock" -> "deadlock pattern"

BugSeverity(cause) ==
    CASE cause = "channel_misuse" -> "Warning"
      [] cause = "shared_memory_sync" -> "Error"
      [] cause = "deadlock" -> "Critical"

\* detectBlockingBugs, for one of the pattern lists analyzeBlockingPatterns
\* can return
DetectBlockingBugs(funcDecl, patterns) ==
    [i \in DOMAIN patterns |->
        NewAnalysisFinding(<<patterns[i].cause, funcDecl.name, funcDecl.line>>,
            "Bug", funcDecl.line,
            [label |-> BugMessageLabel(patterns[i].cause), fn |-> funcDecl.name,
             confidence |-> "", desc |-> patterns[i].description],
            BugSeverity(patterns[i].cause))]

ContainsGoroutines(block) ==
    \E i \in DOMAIN Preorder(block) : Preorder(block)[i].kind = "GoStmt"

\* faulty variant: a variable assigned in the body of a spawn is a pattern
AnalyzeRaceConditionPatternsSharedWrites(block) ==
    LET writes == SelectSeq(Preorder(block),
                      LAMBDA g : g.kind = "GoStmt"
                                 /\ \E i \in DOMAIN Preorder(g) :
                                        /\ Preorder(g)[i].kind = "AssignStmt"
                                        /\ Preorder(g)[i].kids[1].kind = "Ident")
    IN  IF writes = <<>> THEN <<>>
        ELSE <<[what |-> "race", name |-> <<>>, ops |-> <<>>]>>

\* race detection is disabled: no pattern is ever produced
AnalyzeRaceConditionPatterns(block) == <<>>

DetectRaceConditions(funcDecl) ==
    IF ~ContainsGoroutines(Body(funcDecl)) THEN <<>>
    ELSE LET racePatterns == AnalyzeRaceConditionPatterns(Body(funcDecl))
         IN  [i \in DOMAIN racePatterns |->
                NewAnalysisFinding(<<"race_condition", funcDecl.name, funcDecl.line>>,
                    "Bug", funcDecl.line,
                    [label |-> "race condition", fn |-> funcDecl.name,
                     confidence |-> "", desc |-> racePatterns[i]],
                    "Critical")]

\* analyzeFunctionConcurrency: the finding lists it can return
AnalyzeFunctionConcurrency(funcDecl) ==
    IF funcDecl.kids = <<>> THEN {<<>>}
    ELSE {DetectBlockingBugs(funcDecl, p) \o DetectRaceConditions(funcDecl) :
             p \in AnalyzeBlockingPatterns(Body(funcDecl))}

\* DetectBugs: the finding lists it can return for the tree
RECURSIVE BugsOfDecls(_)
BugsOfDecls(ds) ==
    IF ds = <<>> THEN {<<>>}
    ELSE {a \o b : a \in AnalyzeFunctionConcurrency(Head(ds)), b \in BugsOfDecls(Tail(ds))}

DetectBugs(node) ==
    BugsOfDecls(SelectSeq(Preorder(node), LAMBDA n : n.kind = "FuncDecl"))

(***************************************************************************)
(* The explored programs: one file with the function test, whose body is   *)
(* drawn from the families below.  The i-th statement of the function      *)
(* stands on line i + 1, between the braces on lines 1 and n + 2.          *)
(***************************************************************************)
SeqsFromTo(S, lo, hi) == UNION {[1..k -> S] : k \in lo..hi}

File(decls) == Node("File", <<>>, "", 0, decls)

Program(stmts) ==
    File(<<FuncDecl(S_test, 1,
        BlockStmtSpan([i \in DOMAIN stmts |->
            IF stmts[i].kind = "GoStmt" THEN [stmts[i] EXCEPT !.line = i + 1]
            ELSE stmts[i]], 1, Len(stmts) + 2))>>)

\* <-ch
RecvStmt(ch) == ExprStmt(RecvExpr(Ident(ch)))
\* v := <-ch
AssignRecvStmt(ch) == AssignStmt(Ident(S_v), RecvExpr(Ident(ch)))
\* ch <- 1
Send(ch) == SendStmt(Ident(ch), BasicLit)
\* close(ch)
CloseCall(ch) == CallExpr(Ident(S_close), <<Ident(ch)>>)
\* x.m()
MethodCall(x, m) == CallExpr(SelectorExpr(Ident(x), m), <<>>)
\* go func() { body }()
Spawn(body, l) == GoStmt(CallExpr(FuncLit(BlockStmt(body)), <<>>), l)
\* go worker()
NamedSpawn(l) == GoStmt(CallExpr(Ident(S_worker), <<>>), l)
\* case <-x:
RecvClause(x) == CommClause(ExprStmt(RecvExpr(x)), <<>>)

ClauseForms ==
    { DefaultClause(<<>>),
      RecvClause(Ident(S_ch1)),
      RecvClause(Ident(S_ch2)),
      RecvClause(Ident(S_done)),
      RecvClause(MethodCall(S_ctx, S_Done)),
      RecvClause(MethodCall(S_parentCtx, S_Done)),
      RecvClause(CallExpr(SelectorExpr(Ident(S_time), S_After), <<BasicLit>>)),
      CommClause(Send(S_ch1), <<>>),
      CommClause(AssignRecvStmt(S_ch1), <<>>) }

Selects == {SelectStmt(c) : c \in SeqsFromTo(ClauseForms, 1, MaxClauses)}

\* a select as the whole body of an inline spawn, or directly in the function
SelectPrograms ==
    {Program(<<Spawn(<<s>>, 2)>>) : s \in Selects} \cup {Program(<<s>>) : s \in Selects}

SimpleStmts ==
    { RecvStmt(S_ch), AssignRecvStmt(S_ch), Send(S_ch), ExprStmt(CloseCall(S_ch)),
      DeferStmt(CloseCall(S_ch)), ReturnStmt,
      SelectStmt(<<RecvClause(Ident(S_ch1))>>) }

\* one inline spawn whose body is a list of simple statements
SpawnBodyPrograms ==
    {Program(<<Spawn(b, 2)>>) : b \in SeqsFromTo(SimpleStmts, 0, MaxBody)}

SmallBodies ==
    { <<>>, <<RecvStmt(S_ch)>>, <<Send(S_ch), ReturnStmt>>, <<ReturnStmt, Send(S_ch)>>,
      <<SelectStmt(<<RecvClause(Ident(S_ch1)), RecvClause(Ident(S_ch2))>>)>> }

\* two spawns in one function: side by side, one inside the other, and one
\* of them a call of a named function
TwoSpawnPrograms ==
    {Program(<<Spawn(a, 2), Spawn(b, 3)>>) : a \in SmallBodies, b \in SmallBodies}
    \cup {Program(<<Spawn(a \o <<Spawn(b, 3)>>, 2)>>) : a \in SmallBodies, b \in SmallBodies}
    \cup {Program(<<NamedSpawn(2), Spawn(b, 3)>>) : b \in SmallBodies}

\* go worker(func() { <-ch })
NamedSpawnWithLiteral(l) ==
    GoStmt(CallExpr(Ident(S_worker), <<FuncLit(BlockStmt(<<RecvStmt(S_ch)>>))>>), l)
\* go worker(func() { body })()
WrappedSpawn(body, l) ==
    GoStmt(CallExpr(CallExpr(Ident(S_worker), <<FuncLit(BlockStmt(body))>>), <<>>), l)

\* a function that spawns the named function worker, and worker's declaration
NamedSpawnPrograms ==
    {File(<<FuncDecl(S_test, 1, BlockStmt(<<g>>)), FuncDecl(S_worker, 5, BlockStmt(b))>>) :
        g \in {NamedSpawn(2), NamedSpawnWithLiteral(2), WrappedSpawn(<<RecvStmt(S_ch)>>, 2)},
        b \in SmallBodies \cup {<<Spawn(<<RecvStmt(S_ch)>>, 6)>>}}

\* go func() { defer close(ch1); select { ...; default: } }()
DeferSelectPrograms ==
    {Program(<<Spawn(<<DeferStmt(CloseCall(S_ch1)),
                       SelectStmt(c \o <<DefaultClause(<<>>)>>)>>, 2)>>) :
        c \in SeqsFromTo(ClauseForms \ {DefaultClause(<<>>)}, 0, MaxClauses)}

EmptyBlock == BlockStmt(<<>>)
\* if a { }
PlainIf == IfStmt(Ident(S_a), EmptyBlock, <<>>)

\* branching statements, alone, chained and nested
BranchStmts ==
    { PlainIf,
      IfStmt(BinaryExpr("LAND", Ident(S_a), Ident(S_a)), EmptyBlock, <<>>),
      IfStmt(Ident(S_a), EmptyBlock, <<PlainIf>>),
      IfStmt(Ident(S_a), EmptyBlock, <<IfStmt(Ident(S_a), EmptyBlock, <<PlainIf>>)>>),
      IfStmt(Ident(S_a), EmptyBlock, <<EmptyBlock>>),
      IfStmt(Ident(S_a), BlockStmt(<<PlainIf>>), <<>>),
      ForStmt(BinaryExpr("LOR", Ident(S_a), Ident(S_a)), EmptyBlock),
      RangeStmt(Ident(S_a), BlockStmt(<<PlainIf>>)),
      SwitchStmt(Ident(S_a), <<CaseClause(<<Ident(S_a)>>, <<PlainIf>>)>>),
      TypeSwitchStmt(ExprStmt(Ident(S_a)), <<CaseClause(<<>>, <<>>)>>),
      SelectStmt(<<DefaultClause(<<>>)>>),
      BlockStmt(<<PlainIf>>) }

BranchPrograms == {Program(b) : b \in SeqsFromTo(BranchStmts, 0, MaxStmts)}

\* if a { }; if a { }; ...
IfSequences == {Program([i \in 1..k |-> PlainIf]) : k \in 5..MaxIfs}

\* a file without declarations
EmptyFile == File(<<>>)

\* what the environment variables GOAST_MAX_CYCLOMATIC, GOAST_MAX_COGNITIVE
\* and GOAST_MAX_FUNCTION_LENGTH parse to: all unset, or set to 2, 3 and 5
Environments ==
    { [cyclomatic |-> 0, cognitive |-> 0, functionLength |-> 0],
      [cyclomatic |-> 2, cognitive |-> 3, functionLength |-> 5] }

\* a statement that encloses the statements of body in one more body
Wrap(kind, body) ==
    CASE kind = "if" -> IfStmt(Ident(S_a), BlockStmt(body), <<>>)
      [] kind = "else" -> IfStmt(Ident(S_a), EmptyBlock, <<BlockStmt(body)>>)
      [] kind = "else if" ->
            IfStmt(Ident(S_a), EmptyBlock, <<IfStmt(Ident(S_a), BlockStmt(body), <<>>)>>)
      [] kind = "for" -> ForStmt(Ident(S_a), BlockStmt(body))
      [] kind = "range" -> RangeStmt(Ident(S_a), BlockStmt(body))
      [] kind = "switch" -> SwitchStmt(Ident(S_a), <<CaseClause(<<Ident(S_a)>>, body)>>)
      [] kind = "type switch" ->
            TypeSwitchStmt(ExprStmt(Ident(S_a)), <<CaseClause(<<Ident(S_a)>>, body)>>)
      [] kind = "select" -> SelectStmt(<<CommClause(RecvStmt(S_ch), body)>>)

NestKinds ==
    {"if", "else", "else if", "for", "range", "switch", "type switch", "select"}

\* depth nested if statements around a return, the i-th from the outside
\* replaced by a statement of the given kind
RECURSIVE NestWith(_, _, _)
NestWith(depth, i, kind) ==
    IF depth = 0 THEN ReturnStmt
    ELSE Wrap(IF i = 1 THEN kind ELSE "if", <<NestWith(depth - 1, i - 1, kind)>>)

NestingPrograms ==
    {Program(<<NestWith(d, i, k)>>) : d \in 4..MaxNesting, i \in 1..MaxNesting, k \in NestKinds}

\* n single-letter names
Names(n) == [i \in 1..n |-> <<LowerLetters[i]>>]
\* a function test whose body has the statements list and spans the lines 1..n
SpanProgram(list, n) == File(<<FuncDecl(S_test, 1, BlockStmtSpan(list, 1, n))>>)

\* bodies around the default length limit of 80 lines and around the limit 5,
\* with a statement and without any
LongFunctionPrograms ==
    {SpanProgram(b, n) : b \in {<<>>, <<ReturnStmt>>}, n \in (4..6) \cup (79..MaxLines)}

\* type T struct { a int; b int; ... }
StructOf(n) == StructType([i \in 1..n |-> Field(<<Names(n)[i]>>, Ident(S_a))])
\* type T struct { a, b int; c, d int; ... }
StructOfPairs(n) ==
    StructType([i \in 1..n |-> Field(<<Names(2 * n)[2 * i - 1], Names(2 * n)[2 * i]>>,
                                      Ident(S_a))])
\* type I interface { a(); b(); ... }
InterfaceOf(n) == InterfaceType([i \in 1..n |-> Field(<<Names(n)[i]>>, FuncType)])

TypeDeclPrograms ==
    {File(<<GenDecl(<<TypeSpec(S_T, 1, StructOf(n))>>)>>) : n \in 9..MaxFields}
    \cup {File(<<GenDecl(<<TypeSpec(S_T, 1, StructOfPairs(n))>>)>>) : n \in 5..(MaxFields \div 2)}
    \cup {File(<<GenDecl(<<TypeSpec(S_I, 1, InterfaceOf(n))>>)>>) : n \in 6..MaxMethods}
    \cup {File(<<GenDecl(<<TypeSpec(S_T, 1, StructOf(n)), TypeSpec(S_I, 2, InterfaceOf(m))>>)>>) :
            n \in {10, 11}, m \in {7, 8}}

\* a large struct, and a function of 3 or 81 lines with an inline spawn
MixedPrograms ==
    {File(<<GenDecl(<<TypeSpec(S_T, 1, StructOf(11))>>),
            FuncDecl(S_test, 3, BlockStmtSpan(<<Spawn(b, 4)>>, 3, 2 + n))>>) :
        b \in SmallBodies, n \in {3, 81}}

\* counter = 1
WriteCounter == AssignStmt(Ident(S_counter), BasicLit)

\* two spawns that write the same variable without synchronisation
RacePrograms ==
    {Program(<<Spawn(<<WriteCounter>> \o b, 2), Spawn(<<WriteCounter>>, 3)>> \o c) :
        b \in SmallBodies, c \in {<<>>, <<WriteCounter>>}}

ChanStmts == {Send(S_ch1), RecvStmt(S_ch1), Send(S_ch2), RecvStmt(S_ch2)}

\* channel operations in a function with no spawn and no select
ChannelPrograms == {Program(b) : b \in SeqsFromTo(ChanStmts, 0, MaxChanOps)}

LockStmts ==
    { ExprStmt(MethodCall(S_mu, S_Lock)), ExprStmt(MethodCall(S_mu, S_Unlock)),
      ExprStmt(MethodCall(S_mu, S_RLock)), DeferStmt(MethodCall(S_mu, S_RUnlock)),
      Spawn(<<ExprStmt(MethodCall(S_mu, S_Lock))>>, 2),
      Spawn(<<ExprStmt(MethodCall(S_mu, S_Unlock))>>, 2) }

\* lock and unlock calls, directly in the function and inside inline spawns
LockPrograms == {Program(b) : b \in SeqsFromTo(LockStmts, 0, MaxLockOps)}

Programs ==
    SelectPrograms \cup SpawnBodyPrograms \cup TwoSpawnPrograms
        \cup ChannelPrograms \cup LockPrograms \cup NamedSpawnPrograms
        \cup DeferSelectPrograms \cup BranchPrograms \cup IfSequences \cup {EmptyFile}
        \cup NestingPrograms \cup LongFunctionPrograms \cup TypeDeclPrograms
        \cup MixedPrograms \cup RacePrograms

(***************************************************************************)
(* The run: DetectLeaks, then DetectBugs, on the same tree (the order in   *)
(* which DetectSmells calls them).                                         *)
(***************************************************************************)
\* nothing of the detectors has run yet
DetectorsIdle ==
    /\ goroutines = <<>>
    /\ gi = 0
    /\ context = NewContext(<<>>, 0)
    /\ leakFindings = <<>>
    /\ bugFindings = <<>>
    /\ findings = <<>>

\* analyzeFile's locals as declared, and the result NewAnalysisResult returns
AnalysisIdle ==
    /\ fi = 1
    /\ scores = <<>>
    /\ totals = [functionCount |-> 0, cyclomatic |-> 0, cognitive |-> 0]
    /\ complexityFindings = <<>>
    /\ totalComplexity = ZeroScore

ScoreIdle ==
    /\ scoreArgs = <<1, 0>>
    /\ score = NewComplexityScore(1, 0)
    /\ high = FALSE

\* the locals of Execute as declared
ExecuteLocals ==
    [fileIndex |-> 1, fileResult |-> NoFileResult, findingIndex |-> 1,
     totalFunctions |-> 0, totalCyclomatic |-> 0, totalCognitive |-> 0]

\* no request is being executed
ExecuteIdle ==
    /\ request = [filePaths |-> <<>>, includeSmellDetection |-> TRUE]
    /\ execution = ExecuteLocals
    /\ result = NewAnalysisResult("id", config).result
    /\ lastAdd = NoAdd
    /\ response = NoResponse

Init ==
    /\ tree \in Programs
    /\ config \in {LoadAnalysisConfig(e) : e \in Environments}
    /\ pc = "analyzeFile"
    /\ DetectorsIdle
    /\ AnalysisIdle
    /\ ScoreIdle
    /\ ExecuteIdle

\* analyzeFile, one round of the loop over the declarations: the complexity
\* of the next function and the finding of the complexity check
ComplexityStep ==
    /\ pc = "analyzeFile"
    /\ fi <= Len(tree.kids)
    /\ fi' = fi + 1
    /\ LET funcDecl == tree.kids[fi]
           complexity == CalculateComplexity(funcDecl)
       IN  IF funcDecl.kind # "FuncDecl"
           THEN UNCHANGED <<scores, totals, complexityFindings>>
           ELSE IF complexity.err
           THEN /\ totals' = [totals EXCEPT !.functionCount = @ + 1]
                /\ UNCHANGED <<scores, complexityFindings>>
           ELSE /\ totals' = [functionCount |-> totals.functionCount + 1,
                              cyclomatic |-> totals.cyclomatic + complexity.score.cyclomatic,
                              cognitive |-> totals.cognitive + complexity.score.cognitive]
                /\ scores' = Append(scores, complexity.score)
                /\ complexityFindings' =
                      IF IsHighComplexity(complexity.score)
                      THEN Append(complexityFindings, ComplexityFinding(funcDecl, complexity.score))
                      ELSE complexityFindings
    /\ UNCHANGED <<tree, config, pc, detectorVars, totalComplexity, scoreVars>>
    /\ UNCHANGED executeVars

\* analyzeFile calls DetectSmells: the walk for the structural smells
SmellsStart ==
    /\ pc = "analyzeFile"
    /\ fi > Len(tree.kids)
    /\ findings' = StructuralSmells(Preorder(tree), config)
    /\ pc' = "DetectLeaks"
    /\ UNCHANGED <<tree, config, goroutines, gi, context, leakFindings, bugFindings>>
    /\ UNCHANGED <<complexityVars, scoreVars>>
    /\ UNCHANGED executeVars

\* Execute, after the loop over the files: the aggregate metrics
ExecuteFinish ==
    /\ pc = "done"
    /\ totalComplexity' =
          IF totals.functionCount > 0
          THEN NewComplexityScore(totals.cyclomatic \div totals.functionCount,
                                  totals.cognitive \div totals.functionCount).score
          ELSE totalComplexity
    /\ pc' = "completed"
    /\ UNCHANGED <<tree, config, detectorVars, fi, scores, totals, complexityFindings,
                   scoreVars>>
    /\ UNCHANGED executeVars

\* DetectLeaks, first pass: collect the spawn statements
CollectStep ==
    /\ pc = "DetectLeaks"
    /\ goroutines' = CollectGoroutines(tree)
    /\ gi' = 1
    /\ pc' = "analyzeGoroutine"
    /\ UNCHANGED <<tree, context, leakFindings, bugFindings, findings>>
    /\ UNCHANGED <<config, complexityVars, scoreVars>>
    /\ UNCHANGED executeVars

\* analyzeGoroutine: build the context of the next spawn
AnalyzeStep ==
    /\ pc = "analyzeGoroutine"
    /\ gi <= Len(goroutines)
    /\ context' = AnalyzeGoroutine(goroutines[gi], FreshContext(context, goroutines[gi]))
    /\ pc' = "checkLeakPatterns"
    /\ UNCHANGED <<tree, goroutines, gi, leakFindings, bugFindings, findings>>
    /\ UNCHANGED <<config, complexityVars, scoreVars>>
    /\ UNCHANGED executeVars

\* analyzeGoroutine: classify the spawn and append its findings
CheckStep ==
    /\ pc = "checkLeakPatterns"
    /\ leakFindings' = leakFindings \o CheckLeakPatterns(context)
    /\ gi' = gi + 1
    /\ pc' = "analyzeGoroutine"
    /\ UNCHANGED <<tree, goroutines, context, bugFindings, findings>>
    /\ UNCHANGED <<config, complexityVars, scoreVars>>
    /\ UNCHANGED executeVars

\* DetectLeaks returns to DetectSmells, which appends what it found
LeaksReturn ==
    /\ pc = "analyzeGoroutine"
    /\ gi > Len(goroutines)
    /\ findings' = MergeFindings(findings, [findings |-> leakFindings, err |-> FALSE])
    /\ pc' = "DetectBugs"
    /\ UNCHANGED <<tree, goroutines, gi, context, leakFindings, bugFindings>>
    /\ UNCHANGED <<config, complexityVars, scoreVars>>
    /\ UNCHANGED executeVars

\* DetectBugs runs and returns to DetectSmells, which appends what it found
BugsStep ==
    /\ pc = "DetectBugs"
    /\ \E fs \in DetectBugs(tree) : bugFindings' = fs
    /\ findings' = MergeFindings(findings, [findings |-> bugFindings', err |-> FALSE])
    /\ pc' = "done"
    /\ UNCHANGED <<tree, goroutines, gi, context, leakFindings>>
    /\ UNCHANGED <<config, complexityVars, scoreVars>>
    /\ UNCHANGED executeVars

Next ==
    \/ ComplexityStep \/ SmellsStart
    \/ CollectStep \/ AnalyzeStep \/ CheckStep \/ LeaksReturn \/ BugsStep
    \/ ExecuteFinish

Spec == Init /\ [][Next]_vars

(***************************************************************************)
(* Constructing a score from two integers and asking whether it is high.   *)
(***************************************************************************)
ScoreInit ==
    /\ tree = File(<<>>)
    /\ config \in {LoadAnalysisConfig(e) : e \in Environments}
    /\ pc = "NewComplexityScore"
    /\ DetectorsIdle
    /\ AnalysisIdle
    /\ scoreArgs \in (-1 .. MaxScore) \X (-1 .. MaxScore)
    /\ score = NewComplexityScore(1, 0)
    /\ high = FALSE
    /\ ExecuteIdle

NewScoreStep ==
    /\ pc = "NewComplexityScore"
    /\ score' = NewComplexityScore(scoreArgs[1], scoreArgs[2])
    /\ pc' = IF score'.err THEN "rejected" ELSE "IsHighComplexity"
    /\ UNCHANGED <<tree, config, detectorVars, complexityVars, scoreArgs, high>>
    /\ UNCHANGED executeVars

HighStep ==
    /\ pc = "IsHighComplexity"
    /\ high' = IsHighComplexity(score.score)
    /\ pc' = "scored"
    /\ UNCHANGED <<tree, config, detectorVars, complexityVars, scoreArgs, score>>
    /\ UNCHANGED executeVars

ScoreNext == NewScoreStep \/ HighStep

ScoreSpec == ScoreInit /\ [][ScoreNext]_vars

(***************************************************************************)
(* Vocabulary of the properties below.                                     *)
(***************************************************************************)
\* the first function of the file (an empty function when the file has none)
TheFunc ==
    LET funcs == SelectSeq(tree.kids, LAMBDA d : d.kind = "FuncDecl")
    IN  IF funcs = <<>> THEN FuncDecl(<<>>, 0, BlockStmt(<<>>)) ELSE funcs[1]
FuncBody == Body(TheFunc)
HasNode(n, P(_)) == \E i \in DOMAIN Preorder(n) : P(Preorder(n)[i])
CountNodes(n, P(_)) == Len(SelectSeq(Preorder(n), P))
IsInlineSpawn(g) == g.kind = "GoStmt" /\ Fun(g.kids[1]).kind = "FuncLit"
SpawnBody(g) == Body(Fun(g.kids[1]))
\* the leak findings reported at the position of the spawn on line l
LeakFindingsAt(l) == SelectSeq(leakFindings, LAMBDA f : f.line = l)
Labels(fs) == [i \in DOMAIN fs |-> fs[i].msg.label]
IsLeak(f, label, confidence, severity) ==
    /\ f.msg.label = label
    /\ f.msg.confidence = confidence
    /\ f.severity = severity
\* the spawn whose context the detector has just classified
JustClassified == pc = "analyzeGoroutine" /\ gi > 1
BoolToNat(b) == IF b THEN 1 ELSE 0

(***************************************************************************)
(* C1: for every spawn the detector classifies, the findings emitted for   *)
(* it are exactly those of the leak table applied to the spawn's context:  *)
(* receive leak (Warning, 0.42) iff has-receive, no close and no cancel    *)
(* signal; select leak (Error, 0.86) iff has-select, no cancel signal and   *)
(* no timeout; send leak (Warning, 0.57) iff has-send, premature return and *)
(* no deferred close; nothing else, each at most once, and nothing at all   *)
(* for a body without receive, send or select.                             *)
(***************************************************************************)
C1_LeakTable ==
    JustClassified =>
        LET fs == LeakFindingsAt(context.position)
            recv == context.hasChannelReceive /\ ~context.hasChannelClose
                        /\ ~context.hasContextCancel
            sel == context.hasSelectStmt /\ ~context.hasContextCancel
                        /\ ~context.hasTimeout
            send == context.hasChannelSend /\ context.hasPrematureReturn
                        /\ ~context.hasDeferClose
            g == goroutines[gi - 1]
        IN  /\ recv <=> \E i \in DOMAIN fs :
                    IsLeak(fs[i], "channel_receive_leak", "0.42", "Warning")
            /\ sel <=> \E i \in DOMAIN fs :
                    IsLeak(fs[i], "select_statement_leak", "0.86", "Error")
            /\ send <=> \E i \in DOMAIN fs :
                    IsLeak(fs[i], "channel_send_leak", "0.57", "Warning")
            /\ \A i \in DOMAIN fs :
                    \/ IsLeak(fs[i], "channel_receive_leak", "0.42", "Warning")
                    \/ IsLeak(fs[i], "select_statement_leak", "0.86", "Error")
                    \/ IsLeak(fs[i], "channel_send_leak", "0.57", "Warning")
            /\ Len(fs) = BoolToNat(recv) + BoolToNat(sel) + BoolToNat(send)
            /\ (IsInlineSpawn(g) /\ ~HasNode(SpawnBody(g),
                    LAMBDA n : IsArrow(n) \/ n.kind = "SendStmt" \/ n.kind = "SelectStmt"))
                  => fs = <<>>

\* all three rules fire on one spawn
C1_Witness ==
    /\ JustClassified
    /\ IsInlineSpawn(goroutines[gi - 1])
    /\ Labels(LeakFindingsAt(context.position)) =
          <<"channel_receive_leak", "select_statement_leak", "channel_send_leak">>

(***************************************************************************)
(* C2: in a function body without spawn and without select, DetectBugs      *)
(* reports exactly one channel misuse (Bug, Warning) for each channel with  *)
(* s sends and r receives where s + r >= 2 and (s > 2r or r > 2s), and no   *)
(* channel misuse for any other channel.                                   *)
(***************************************************************************)
SendsOn(c) ==
    CountNodes(FuncBody, LAMBDA n : n.kind = "SendStmt" /\ Chan(n) = Ident(c))
ReceivesOn(c) ==
    CountNodes(FuncBody, LAMBDA n : IsArrow(n) /\ UnaryX(n) = Ident(c))
ChannelNames == {S_ch, S_ch1, S_ch2, S_done}
NoSpawnNoSelect ==
    ~HasNode(FuncBody, LAMBDA n : n.kind = "GoStmt" \/ n.kind = "SelectStmt")
IsChannelMisuse(f) == f.id[1] = "channel_misuse" /\ f.msg.label = "channel misuse"
MisuseOn(c) ==
    SelectSeq(bugFindings,
        LAMBDA f : IsChannelMisuse(f) /\ f.msg.desc.what = "channel" /\ f.msg.desc.name = c)
Imbalanced(s, r) == s + r >= 2 /\ (s > 2 * r \/ r > 2 * s)

C2_ChannelImbalance ==
    (pc = "done" /\ NoSpawnNoSelect) =>
        /\ \A c \in ChannelNames :
              Len(MisuseOn(c)) = BoolToNat(Imbalanced(SendsOn(c), ReceivesOn(c)))
        /\ \A i \in DOMAIN bugFindings :
              IsChannelMisuse(bugFindings[i]) =>
                  /\ bugFindings[i].type = "Bug"
                  /\ bugFindings[i].severity = "Warning"
                  /\ bugFindings[i].msg.desc.what = "channel"
                  /\ bugFindings[i].msg.desc.name \in ChannelNames

\* three sends and one receive on one channel: exactly one finding
C2_Witness ==
    /\ pc = "done"
    /\ NoSpawnNoSelect
    /\ SendsOn(S_ch1) = 3
    /\ ReceivesOn(S_ch1) = 1
    /\ Len(bugFindings) = 1
    /\ IsChannelMisuse(bugFindings[1])

(***************************************************************************)
(* Lock tallies.                                                           *)
(***************************************************************************)
MutexNames == {S_mu}
\* a selector m.Lock, m.RLock, m.Unlock or m.RUnlock
IsMutexSel(n, m) ==
    n.kind = "SelectorExpr" /\ SelX(n) = Ident(m) /\ MutexTag(n.name) # "none"
IsMutexCall(n, m, tag) ==
    n.kind = "CallExpr" /\ IsMutexSel(Fun(n), m) /\ MutexTag(Fun(n).name) = tag
\* Lock/RLock and Unlock/RUnlock calls on m anywhere in the function body
LockCallsOn(m) == CountNodes(FuncBody, LAMBDA n : IsMutexCall(n, m, "lock"))
UnlockCallsOn(m) == CountNodes(FuncBody, LAMBDA n : IsMutexCall(n, m, "unlock"))
IsDeadlock(f) == f.id[1] = "deadlock" /\ f.msg.label = "deadlock pattern"
DeadlocksOn(m) ==
    SelectSeq(bugFindings, LAMBDA f : IsDeadlock(f) /\ f.msg.desc.name = m)
\* no call on m lies below another call expression (the call of an inline
\* spawn or of a function literal, or an argument of a call)
MutexCallsStandAlone(m) ==
    \A i \in DOMAIN Preorder(FuncBody) :
        LET c == Preorder(FuncBody)[i]
        IN  c.kind = "CallExpr" =>
               CountNodes(c, LAMBDA n : IsMutexSel(n, m)) = BoolToNat(IsMutexSel(Fun(c), m))
\* no call on m lies in the body of an inline spawn
NoMutexCallInSpawn(m) ==
    \A i \in DOMAIN Preorder(FuncBody) :
        LET g == Preorder(FuncBody)[i]
        IN  IsInlineSpawn(g) => ~HasNode(SpawnBody(g), LAMBDA n : IsMutexSel(n, m))

(***************************************************************************)
(* C3 as stated: a deadlock finding for a lock identifier iff its Lock and  *)
(* RLock calls outnumber its Unlock and RUnlock calls by more than one.     *)
(***************************************************************************)
C3_Original ==
    pc = "done" =>
        \A m \in MutexNames :
            Len(DeadlocksOn(m)) > 0 <=> LockCallsOn(m) > UnlockCallsOn(m) + 1

(***************************************************************************)
(* C3 amended: every call is tallied twice (once as the call, once more by  *)
(* the walk below the call), so for an identifier whose lock and unlock     *)
(* calls are not nested in another call expression the test on the tallies  *)
(* amounts to: a deadlock finding iff locks > unlocks.                      *)
(***************************************************************************)
C3_LockImbalance ==
    pc = "done" =>
        \A m \in MutexNames :
            MutexCallsStandAlone(m) =>
                (Len(DeadlocksOn(m)) > 0 <=> LockCallsOn(m) > UnlockCallsOn(m))

\* one more lock than unlocks, two locks at least, and the finding is there
C3_Witness ==
    /\ pc = "done"
    /\ MutexCallsStandAlone(S_mu)
    /\ LockCallsOn(S_mu) = 2
    /\ UnlockCallsOn(S_mu) = 1
    /\ Len(DeadlocksOn(S_mu)) = 1

(***************************************************************************)
(* C4 as stated: a function that locks an identifier and never unlocks it   *)
(* gets exactly one deadlock finding (Bug, Critical), also for a single     *)
(* Lock(); one Lock() followed by one Unlock() gets none.                   *)
(***************************************************************************)
LockThenUnlock ==
    FuncBody.kids = <<ExprStmt(MethodCall(S_mu, S_Lock)), ExprStmt(MethodCall(S_mu, S_Unlock))>>

C4_Original ==
    pc = "done" =>
        /\ \A m \in MutexNames :
              (LockCallsOn(m) >= 1 /\ UnlockCallsOn(m) = 0) =>
                  /\ Len(DeadlocksOn(m)) = 1
                  /\ DeadlocksOn(m)[1].type = "Bug"
                  /\ DeadlocksOn(m)[1].severity = "Critical"
        /\ LockThenUnlock => DeadlocksOn(S_mu) = <<>>

(***************************************************************************)
(* C4 amended: the same, for an identifier none of whose lock calls stands  *)
(* in the body of an inline spawn (such a body is analysed once more on its *)
(* own and reports its own finding).                                       *)
(***************************************************************************)
C4_LockWithoutUnlock ==
    pc = "done" =>
        /\ \A m \in MutexNames :
              (LockCallsOn(m) >= 1 /\ UnlockCallsOn(m) = 0 /\ NoMutexCallInSpawn(m)) =>
                  /\ Len(DeadlocksOn(m)) = 1
                  /\ DeadlocksOn(m)[1].type = "Bug"
                  /\ DeadlocksOn(m)[1].severity = "Critical"
        /\ LockThenUnlock => DeadlocksOn(S_mu) = <<>>

\* a single Lock() and nothing else: one deadlock finding
C4_Witness ==
    /\ pc = "done"
    /\ FuncBody.kids = <<ExprStmt(MethodCall(S_mu, S_Lock))>>
    /\ Len(bugFindings) = 1
    /\ IsDeadlock(bugFindings[1])
    /\ bugFindings[1].severity = "Critical"

(***************************************************************************)
(* Select clauses, as the design describes them.                           *)
(***************************************************************************)
\* the clause's communication is a receive (case <-x: or case v := <-x:)
IsReceiveClause(clause) ==
    /\ clause.kind = "CommClause"
    /\ clause.op # "nil"
    /\ \/ CommOf(clause).kind = "ExprStmt" /\ IsArrow(CommOf(clause).kids[1])
       \/ CommOf(clause).kind = "AssignStmt" /\ IsArrow(CommOf(clause).kids[2])
\* the expression a receive clause receives from
ReceiveSource(clause) ==
    IF CommOf(clause).kind = "ExprStmt" THEN UnaryX(CommOf(clause).kids[1])
    ELSE UnaryX(CommOf(clause).kids[2])
\* X.Done() with "ctx" or "context" in X's name, or a channel with done,
\* quit, stop, cancel or exit in its name
IsCancelSource(x) ==
    \/ /\ x.kind = "CallExpr"
       /\ Fun(x).kind = "SelectorExpr"
       /\ Fun(x).name = S_Done
       /\ SelX(Fun(x)).kind = "Ident"
       /\ \/ Contains(ToLower(SelX(Fun(x)).name), S_ctx)
          \/ Contains(ToLower(SelX(Fun(x)).name), S_context)
    \/ /\ x.kind = "Ident"
       /\ \E w \in {S_done, S_quit, S_stop, S_cancel, S_exit} : Contains(ToLower(x.name), w)
IsCancelClause(clause) == IsReceiveClause(clause) /\ IsCancelSource(ReceiveSource(clause))
IsTimeoutClause(clause) == IsReceiveClause(clause) /\ IsTimeoutCall(ReceiveSource(clause))
IsDefaultClause(clause) == clause.kind = "CommClause" /\ clause.op = "nil"
SelectsOf(n) == SelectSeq(Preorder(n), LAMBDA x : x.kind = "SelectStmt")
Some(cl, P(_)) == \E i \in DOMAIN cl : P(cl[i])
\* what the leak detector makes of one clause: its select rule, or its walk
\* of the clause's communication
LeakSeesCancel(clause) ==
    \/ ClauseHasContextDone(clause)
    \/ /\ clause.op # "nil"
       /\ AnalyzeFunctionBody(BlockStmt(<<CommOf(clause)>>), NewContext(<<>>, 0)).hasContextCancel
IsSelectMisuse(f) == IsChannelMisuse(f) /\ f.msg.desc.what = "select"

(***************************************************************************)
(* C5: DetectBugs flags a select as channel misuse iff it has two or more   *)
(* communication clauses and no default, timeout or cancel-signal clause,   *)
(* and the two detectors agree, clause by clause, on what a cancel signal   *)
(* is.                                                                     *)
(***************************************************************************)
C5_SameCancelRule ==
    pc = "done" =>
        /\ \A i \in DOMAIN SelectsOf(tree) :
              \A j \in DOMAIN Clauses(SelectsOf(tree)[i]) :
                  LET clause == Clauses(SelectsOf(tree)[i])[j]
                  IN  LeakSeesCancel(clause) <=> BugClauseHasContextDone(clause)
        /\ (Len(FuncBody.kids) = 1 /\ FuncBody.kids[1].kind = "SelectStmt") =>
              LET cl == Clauses(FuncBody.kids[1])
              IN  Some(bugFindings, IsSelectMisuse) <=>
                      /\ Len(SelectSeq(cl, LAMBDA c : ~IsDefaultClause(c))) >= 2
                      /\ ~Some(cl, IsDefaultClause)
                      /\ ~Some(cl, IsTimeoutClause)
                      /\ ~Some(cl, IsCancelClause)

(***************************************************************************)
(* C6 as stated: a function whose only concurrency construct is a spawn of  *)
(* select { case <-ch1: case <-ch2: } gets exactly two findings from the    *)
(* two detectors: one select leak and one channel misuse.                   *)
(***************************************************************************)
TwoReceiveSelectSpawn ==
    \E a, b \in {S_ch1, S_ch2} :
        /\ a # b
        /\ FuncBody.kids =
              <<Spawn(<<SelectStmt(<<RecvClause(Ident(a)), RecvClause(Ident(b))>>)>>, 2)>>

C6_Original ==
    (pc = "done" /\ TwoReceiveSelectSpawn) =>
        /\ Len(leakFindings) + Len(bugFindings) = 2
        /\ Some(leakFindings, LAMBDA f : IsLeak(f, "select_statement_leak", "0.86", "Error"))
        /\ Some(bugFindings, LAMBDA f : IsChannelMisuse(f) /\ f.severity = "Warning")

(***************************************************************************)
(* C6 amended: the two detectors emit exactly four findings for it: the     *)
(* receive leak (Warning, 0.42) and the select leak (Error, 0.86) from the  *)
(* leak detector, and the channel misuse (Bug, Warning) of the select twice *)
(* from the bug detector, once for the spawn body and once for the          *)
(* function.                                                               *)
(***************************************************************************)
C6_FourFindings ==
    (pc = "done" /\ TwoReceiveSelectSpawn) =>
        /\ Len(leakFindings) = 2
        /\ IsLeak(leakFindings[1], "channel_receive_leak", "0.42", "Warning")
        /\ IsLeak(leakFindings[2], "select_statement_leak", "0.86", "Error")
        /\ Len(bugFindings) = 2
        /\ \A i \in 1..2 :
              /\ IsSelectMisuse(bugFindings[i])
              /\ bugFindings[i].type = "Bug"
              /\ bugFindings[i].severity = "Warning"

C6_Witness ==
    /\ pc = "done"
    /\ TwoReceiveSelectSpawn
    /\ Len(leakFindings) + Len(bugFindings) = 4

(***************************************************************************)
(* C7: a receive that is the communication of a select clause counts as a   *)
(* receive: a spawn whose body is one select with receive clauses only and  *)
(* no default, cancel-signal or timeout clause gets exactly the receive     *)
(* leak and the select leak.                                               *)
(***************************************************************************)
OnlyReceiveSelectSpawn ==
    /\ Len(FuncBody.kids) = 1
    /\ IsInlineSpawn(FuncBody.kids[1])
    /\ Len(SpawnBody(FuncBody.kids[1]).kids) = 1
    /\ LET sel == SpawnBody(FuncBody.kids[1]).kids[1]
       IN  /\ sel.kind = "SelectStmt"
           /\ Clauses(sel) # <<>>
           /\ \A i \in DOMAIN Clauses(sel) :
                 /\ IsReceiveClause(Clauses(sel)[i])
                 /\ ~IsCancelClause(Clauses(sel)[i])
                 /\ ~IsTimeoutClause(Clauses(sel)[i])

C7_SelectReceiveCounts ==
    (pc = "done" /\ OnlyReceiveSelectSpawn) =>
        Labels(leakFindings) = <<"channel_receive_leak", "select_statement_leak">>

\* the only receive of the body is the clause case <-ch1:
C7_Witness ==
    /\ pc = "done"
    /\ OnlyReceiveSelectSpawn
    /\ Clauses(SpawnBody(FuncBody.kids[1]).kids[1]) = <<RecvClause(Ident(S_ch1))>>
    /\ Len(leakFindings) = 2

(***************************************************************************)
(* C8: when a spawn body has been walked, has-premature-return is set iff   *)
(* the body contains a return statement and a channel send or receive,      *)
(* whatever their order in the source.                                     *)
(***************************************************************************)
C8_PrematureReturnAnyOrder ==
    (pc = "checkLeakPatterns" /\ IsInlineSpawn(goroutines[gi])) =>
        LET body == SpawnBody(goroutines[gi])
        IN  context.hasPrematureReturn <=>
               /\ HasNode(body, LAMBDA n : n.kind = "ReturnStmt")
               /\ HasNode(body, LAMBDA n : n.kind = "SendStmt" \/ IsArrow(n))

(***************************************************************************)
(* C9: a spawn whose only select has a cancel-signal clause (a receive from *)
(* X.Done() for any X with ctx or context in its name, or from a channel    *)
(* named like done, quit, stop, cancel, exit) gets no select leak and no    *)
(* receive leak.                                                           *)
(***************************************************************************)
C9_CancelSignalRecognised ==
    ( /\ pc = "done"
      /\ Len(FuncBody.kids) = 1
      /\ IsInlineSpawn(FuncBody.kids[1])
      /\ Len(SelectsOf(FuncBody.kids[1])) = 1
      /\ Some(Clauses(SelectsOf(FuncBody.kids[1])[1]), IsCancelClause) ) =>
        ~Some(leakFindings,
            LAMBDA f : f.msg.label \in {"select_statement_leak", "channel_receive_leak"})

(***************************************************************************)
(* C10 as stated: the findings of a spawn do not change when a spawn        *)
(* written inside its body is removed.                                     *)
(***************************************************************************)
RECURSIVE RemoveSpawns(_), RemoveSpawnsAll(_)
RemoveSpawns(n) == [n EXCEPT !.kids = RemoveSpawnsAll(n.kids)]
RemoveSpawnsAll(ns) ==
    IF ns = <<>> THEN <<>>
    ELSE IF Head(ns).kind = "GoStmt" THEN RemoveSpawnsAll(Tail(ns))
    ELSE <<RemoveSpawns(Head(ns))>> \o RemoveSpawnsAll(Tail(ns))

\* the findings of spawn g when it is the only spawn the detector ever sees
AloneFindings(g) ==
    CheckLeakPatterns(AnalyzeGoroutine(g, NewContext(S_anonymous, g.line)))

C10_Original ==
    pc = "done" =>
        \A i \in DOMAIN goroutines :
            LeakFindingsAt(goroutines[i].line) = AloneFindings(RemoveSpawns(goroutines[i]))

(***************************************************************************)
(* C10 amended: the findings of a spawn are those of its own subtree (the   *)
(* bodies of spawns written inside it included): no spawn outside its body  *)
(* changes them.                                                           *)
(***************************************************************************)
C10_OwnSubtreeOnly ==
    pc = "done" =>
        \A i \in DOMAIN goroutines :
            LeakFindingsAt(goroutines[i].line) = AloneFindings(goroutines[i])

\* two spawns side by side, the first with findings, the second with none
C10_Witness ==
    /\ pc = "done"
    /\ Len(FuncBody.kids) = 2
    /\ IsInlineSpawn(FuncBody.kids[1])
    /\ IsInlineSpawn(FuncBody.kids[2])
    /\ SpawnBody(FuncBody.kids[2]).kids # <<>>
    /\ LeakFindingsAt(FuncBody.kids[1].line) # <<>>
    /\ LeakFindingsAt(FuncBody.kids[2].line) = <<>>

(***************************************************************************)
(* C11: a spawn that calls a named function (go worker(...)) is never       *)
(* body-inspected: its context keeps every flag cleared and no leak finding *)
(* is reported at its position, whatever the body of the named function.    *)
(***************************************************************************)
IsNamedSpawn(g) == g.kind = "GoStmt" /\ Fun(g.kids[1]).kind = "Ident"
DeclsNamed(nm) == SelectSeq(tree.kids, LAMBDA d : d.kind = "FuncDecl" /\ d.name = nm)

C11_NamedSpawnNotInspected ==
    /\ \A i \in DOMAIN goroutines :
          IsNamedSpawn(goroutines[i]) => LeakFindingsAt(goroutines[i].line) = <<>>
    /\ (pc = "checkLeakPatterns" /\ IsNamedSpawn(goroutines[gi])) =>
          context = NewContext(S_anonymous, goroutines[gi].line)

\* go worker() has been classified, and worker's body receives from a channel
\* outside of any spawn
C11_Witness ==
    /\ pc = "done"
    /\ \E i \in DOMAIN goroutines :
          /\ IsNamedSpawn(goroutines[i])
          /\ Args(goroutines[i].kids[1]) = <<>>
          /\ DeclsNamed(Fun(goroutines[i].kids[1]).name) # <<>>
          /\ Body(DeclsNamed(Fun(goroutines[i].kids[1]).name)[1]).kids = <<RecvStmt(S_ch)>>

(***************************************************************************)
(* C12 as stated: a function with a single spawn whose body is a deferred   *)
(* close and one select with a default clause gets no finding from         *)
(* DetectLeaks and none from DetectBugs, whatever the other clauses are.    *)
(***************************************************************************)
DeferCloseSelectDefaultSpawn ==
    /\ Len(FuncBody.kids) = 1
    /\ IsInlineSpawn(FuncBody.kids[1])
    /\ LET b == SpawnBody(FuncBody.kids[1]).kids
       IN  /\ Len(b) = 2
           /\ b[1].kind = "DeferStmt"
           /\ Fun(b[1].kids[1]) = Ident(S_close)
           /\ b[2].kind = "SelectStmt"
           /\ Some(Clauses(b[2]), IsDefaultClause)

C12_Original ==
    (pc = "done" /\ DeferCloseSelectDefaultSpawn) =>
        leakFindings = <<>> /\ bugFindings = <<>>

(***************************************************************************)
(* C12 amended: such a function gets no leak finding, no deadlock finding   *)
(* and no blocking-select finding; DetectBugs reports channel misuse, twice, *)
(* for exactly the channel identifiers whose sends s and receives r among   *)
(* the select's clauses satisfy s + r >= 2 and (s > 2r or r > 2s).           *)
(***************************************************************************)
C12_OnlyImbalanceFindings ==
    (pc = "done" /\ DeferCloseSelectDefaultSpawn) =>
        /\ leakFindings = <<>>
        /\ \A i \in DOMAIN bugFindings :
              /\ IsChannelMisuse(bugFindings[i])
              /\ bugFindings[i].msg.desc.what = "channel"
        /\ \A c \in ChannelNames :
              Len(MisuseOn(c)) =
                 IF Imbalanced(SendsOn(c), ReceivesOn(c)) THEN 2 ELSE 0

\* the select has communication clauses on two different channels besides
\* its default clause
C12_Witness ==
    /\ pc = "done"
    /\ DeferCloseSelectDefaultSpawn
    /\ Len(Clauses(SpawnBody(FuncBody.kids[1]).kids[2])) = 3
    /\ SendsOn(S_ch1) = 1
    /\ ReceivesOn(S_ch2) = 1
    /\ bugFindings = <<>>

(***************************************************************************)
(* C13: a second run of DetectLeaks and of DetectBugs on the same tree      *)
(* returns the list the first run returned, element by element and in the   *)
(* same order.                                                             *)
(***************************************************************************)
RECURSIVE FindingsOfSpawns(_)
\* what a run of DetectLeaks returns for the collected spawns gs
FindingsOfSpawns(gs) ==
    IF gs = <<>> THEN <<>>
    ELSE AloneFindings(Head(gs)) \o FindingsOfSpawns(Tail(gs))

C13_SecondRunSameList ==
    pc = "done" =>
        /\ leakFindings = FindingsOfSpawns(CollectGoroutines(tree))
        /\ \A again \in DetectBugs(tree) : again = bugFindings

(***************************************************************************)
(* C14: within one run no two findings of the detectors carry the same id.  *)
(***************************************************************************)
DetectorFindings == leakFindings \o bugFindings

C14_UniqueIds ==
    \A i, j \in DOMAIN DetectorFindings :
        i # j => DetectorFindings[i].id # DetectorFindings[j].id

(***************************************************************************)
(* Vocabulary of the complexity properties.                                *)
(***************************************************************************)
\* an if, for, range, switch, type-switch or select construct, or && / ||
IsBranching(n) ==
    \/ n.kind \in {"IfStmt", "ForStmt", "RangeStmt", "SwitchStmt", "TypeSwitchStmt",
                   "SelectStmt"}
    \/ n.kind = "BinaryExpr" /\ n.op \in {"LAND", "LOR"}

RECURSIVE NestedCognitive(_, _), NestedCognitiveAll(_, _)
\* the sum of (1 + d) over the constructs of n, d being the number of block
\* bodies around the construct; n itself stands inside d block bodies
NestedCognitive(n, d) ==
    (IF IsBranching(n) THEN 1 + d ELSE 0)
        + NestedCognitiveAll(n.kids, IF n.kind = "BlockStmt" THEN d + 1 ELSE d)
NestedCognitiveAll(ns, d) ==
    IF ns = <<>> THEN 0
    ELSE NestedCognitive(Head(ns), d) + NestedCognitiveAll(Tail(ns), d)

\* the complexity check has gone through every declaration of the file
FileScored == pc # "analyzeFile" /\ Len(scores) = Len(tree.kids)
ComplexityFindingsOf(funcDecl) ==
    SelectSeq(complexityFindings,
        LAMBDA f : f.id = <<"complexity", funcDecl.name, funcDecl.line>>)

(***************************************************************************)
(* C15: the cognitive score of a function is the sum of (1 + d) over its    *)
(* if, for, range, switch, type-switch and select constructs and its && and *)
(* || operators, d being the number of nested block bodies that enclose the *)
(* construct, the function's own body not counting.                        *)
(***************************************************************************)
C15_CognitiveByEnclosingBlocks ==
    FileScored =>
        \A i \in DOMAIN scores :
            scores[i].cognitive = NestedCognitiveAll(Body(tree.kids[i]).kids, 0)

(***************************************************************************)
(* C16: in if a { } else if a { } the else-if branch is scored once and at  *)
(* the nesting of the first if: the function scores twice what a function   *)
(* with the single statement if a { } scores.                               *)
(***************************************************************************)
C16_ElseIfScoredOnce ==
    (FileScored /\ FuncBody.kids = <<IfStmt(Ident(S_a), EmptyBlock, <<PlainIf>>)>>) =>
        scores[1].cognitive =
            2 * CalculateCognitiveComplexity(FuncDecl(S_test, 1, BlockStmt(<<PlainIf>>)), 0)

(***************************************************************************)
(* C17: the cyclomatic score of a function is 1 + the number of its if,     *)
(* for, range, switch, type-switch and select constructs + the number of    *)
(* its && and || operators, wherever they are nested, and computing it      *)
(* again gives the same score.                                             *)
(***************************************************************************)
C17_CyclomaticCount ==
    FileScored =>
        \A i \in DOMAIN scores :
            /\ scores[i].cyclomatic =
                  1 + Len(SelectSeq(Preorder(tree.kids[i]),
                            LAMBDA n : IsBranching(n) /\ n.kind # "BinaryExpr"))
                    + Len(SelectSeq(Preorder(tree.kids[i]),
                            LAMBDA n : n.kind = "BinaryExpr" /\ n.op \in {"LAND", "LOR"}))
            /\ scores[i] = CalculateComplexity(tree.kids[i]).score

\* a function with an || in a loop condition and an if nested in a block
C17_Witness ==
    /\ FileScored
    /\ Len(scores) = 1
    /\ HasNode(FuncBody, LAMBDA n : n.kind = "BinaryExpr" /\ n.op = "LOR")
    /\ HasNode(FuncBody, LAMBDA n : n.kind = "RangeStmt")
    /\ scores[1].cyclomatic = 5

(***************************************************************************)
(* C18: every score that can be observed has cyclomatic >= 1 and            *)
(* cognitive >= 0: the scores of the functions and, at every point of the   *)
(* run, the total complexity of the analysis result.                       *)
(***************************************************************************)
C18_ScoreBounds ==
    /\ \A i \in DOMAIN scores : scores[i].cyclomatic >= 1 /\ scores[i].cognitive >= 0
    /\ totalComplexity.cyclomatic >= 1
    /\ totalComplexity.cognitive >= 0

(***************************************************************************)
(* C19: a score is high iff cyclomatic > 15 or cognitive > 20, strictly:    *)
(* (15,20) is not high, (16,20) and (15,21) are; the configuration plays no  *)
(* part.                                                                   *)
(***************************************************************************)
C19_HighIffOverThreshold ==
    pc = "scored" =>
        /\ high <=> (scoreArgs[1] > 15 \/ scoreArgs[2] > 20)
        /\ scoreArgs = <<15, 20>> => ~high
        /\ scoreArgs \in {<<16, 20>>, <<15, 21>>} => high

\* the score (15,20) under thresholds 2 and 3
C19_Witness ==
    /\ pc = "scored"
    /\ scoreArgs = <<15, 20>>
    /\ ~high
    /\ config.maxCyclomaticComplexity = 2
    /\ config.maxCognitiveComplexity = 3

(***************************************************************************)
(* C20: the complexity check reports a function iff its cyclomatic score    *)
(* exceeds the configured maxCyclomatic or its cognitive score exceeds the  *)
(* configured maxCognitive.                                                *)
(***************************************************************************)
C20_ConfiguredThresholds ==
    FileScored =>
        \A i \in DOMAIN scores :
            ComplexityFindingsOf(tree.kids[i]) # <<>> <=>
                \/ scores[i].cyclomatic > config.maxCyclomaticComplexity
                \/ scores[i].cognitive > config.maxCognitiveComplexity

(***************************************************************************)
(* Vocabulary of the structural-smell properties.                          *)
(***************************************************************************)
\* DetectSmells has returned
SmellsReturned == pc = "done"
FuncDeclsOf(file) == SelectSeq(Preorder(file), LAMBDA n : n.kind = "FuncDecl" /\ n.kids # <<>>)
TypeSpecsOf(file) == SelectSeq(Preorder(file), LAMBDA n : n.kind = "TypeSpec")
\* the findings of DetectSmells with the given id
FindingsWithId(id) == SelectSeq(findings, LAMBDA f : f.id = id)
IsWarningSmell(f) == f.type = "Smell" /\ f.severity = "Warning"

\* the largest number of if, else, for, range, switch, type-switch and select
\* bodies around a position in the subtree of node, starting from depth d
RECURSIVE EnclosingBodies(_, _), EnclosingBodiesAll(_, _)
EnclosingBodies(node, d) ==
    CASE node.kind = "IfStmt" ->
            Max(EnclosingBodiesAll(IfBody(node).kids, d + 1),
                IF ~HasElse(node) THEN d
                ELSE IF Else(node).kind = "IfStmt" THEN EnclosingBodies(Else(node), d)
                ELSE EnclosingBodiesAll(Else(node).kids, d + 1))
      [] node.kind \in {"ForStmt", "RangeStmt"} ->
            EnclosingBodiesAll(StmtBody(node).kids, d + 1)
      [] node.kind \in {"SwitchStmt", "TypeSwitchStmt"} ->
            EnclosingBodiesAll(StmtBody(node).kids, d + 1)
      [] node.kind = "SelectStmt" -> EnclosingBodiesAll(Body(node).kids, d + 1)
      [] node.kind \in {"CaseClause", "CommClause", "BlockStmt"} ->
            EnclosingBodiesAll(node.kids, d)
      [] OTHER -> d
EnclosingBodiesAll(nodes, d) ==
    IF nodes = <<>> THEN d
    ELSE Max(EnclosingBodies(Head(nodes), d), EnclosingBodiesAll(Tail(nodes), d))

(***************************************************************************)
(* C21: DetectSmells reports deep nesting (one Warning Smell finding) for a *)
(* function iff the largest number of if, for, range, switch, type-switch   *)
(* and select bodies around a statement of it exceeds 4, an else-if         *)
(* standing at the depth of its if and the statements of case clauses       *)
(* counting like those of if and loop bodies.                               *)
(***************************************************************************)
C21_DeepNestingIffOverFour ==
    SmellsReturned =>
        \A i \in DOMAIN FuncDeclsOf(tree) :
            LET f == FuncDeclsOf(tree)[i]
                reported == FindingsWithId(<<"deep_nesting", f.name, f.line>>)
            IN  /\ Len(reported) = BoolToNat(EnclosingBodies(Body(f), 0) > 4)
                /\ \A j \in DOMAIN reported : IsWarningSmell(reported[j])

(***************************************************************************)
(* C22: for every function with a body, DetectSmells reports a long         *)
(* function (one Warning Smell finding) iff closing brace line - opening    *)
(* brace line + 1 exceeds the configured maxFunctionLength, also for a body *)
(* without statements.                                                     *)
(***************************************************************************)
C22_LongFunctionIffSpanOverMax ==
    SmellsReturned =>
        \A i \in DOMAIN FuncDeclsOf(tree) :
            LET f == FuncDeclsOf(tree)[i]
                reported == FindingsWithId(<<"long_function", f.name, f.line>>)
            IN  /\ Len(reported) =
                      BoolToNat(Rbrace(Body(f)) - Lbrace(Body(f)) + 1 > config.maxFunctionLength)
                /\ \A j \in DOMAIN reported : IsWarningSmell(reported[j])

(***************************************************************************)
(* C23: DetectSmells reports exactly one Warning finding for each struct    *)
(* type that declares more than 10 members, every declared field name       *)
(* counting as one, exactly one for each interface with more than 7         *)
(* methods, none for smaller types, and the same under every configuration. *)
(***************************************************************************)
\* the names the entries of a field list declare
RECURSIVE DeclaredNames(_)
DeclaredNames(fields) ==
    IF fields = <<>> THEN 0
    ELSE (Len(Head(fields).kids) - 1) + DeclaredNames(Tail(fields))

C23_OversizedTypes ==
    SmellsReturned =>
        \A i \in DOMAIN TypeSpecsOf(tree) :
            LET s == TypeSpecsOf(tree)[i]
                structs == FindingsWithId(<<"god_struct", s.name, s.line>>)
                interfaces == FindingsWithId(<<"interface_pollution", s.name, s.line>>)
            IN  /\ Len(structs) =
                      BoolToNat(TypeOf(s).kind = "StructType"
                                /\ DeclaredNames(FieldsList(TypeOf(s))) > 10)
                /\ Len(interfaces) =
                      BoolToNat(TypeOf(s).kind = "InterfaceType"
                                /\ Len(FieldsList(TypeOf(s))) > 7)
                /\ \A j \in DOMAIN structs : IsWarningSmell(structs[j])
                /\ \A j \in DOMAIN interfaces : IsWarningSmell(interfaces[j])

(***************************************************************************)
(* C24: the list DetectSmells returns is its own structural findings in     *)
(* walk order, then exactly the findings DetectLeaks returns for the tree,  *)
(* then exactly the findings DetectBugs returns for it, under every         *)
(* configuration; nothing is added and nothing is dropped.                  *)
(***************************************************************************)
C24_SmellsThenLeaksThenBugs ==
    SmellsReturned =>
        /\ leakFindings = FindingsOfSpawns(CollectGoroutines(tree))
        /\ bugFindings \in DetectBugs(tree)
        /\ findings = StructuralSmells(Preorder(tree), config) \o leakFindings \o bugFindings
        /\ \A i \in DOMAIN findings :
              i <= Len(findings) - Len(leakFindings) - Len(bugFindings)
                  <=> findings[i].type = "Smell" /\ findings[i].msg.confidence = ""

\* a large struct, a long function, leak findings and bug findings in one list
C24_Witness ==
    /\ SmellsReturned
    /\ leakFindings # <<>>
    /\ bugFindings # <<>>
    /\ Len(findings) = 2 + Len(leakFindings) + Len(bugFindings)
    /\ findings[1].id[1] = "god_struct"
    /\ findings[2].id[1] = "long_function"

TalliesOf(block) ==
    BlockingWalk(BlockingVisited(block),
        [alts |-> {<<>>}, channelOps |-> NoOps, mutexOps |-> NoOps])
TallyCount(ops, k, tag) == IF k \in DOMAIN ops THEN Count(ops[k], tag) ELSE 0
InlineSpawnsOf(n) == SelectSeq(Preorder(n), IsInlineSpawn)
\* the function has one spawn, an inline one, whose body holds every channel
\* operation of the function: n >= 2 sends on c, and there is no select and
\* no lock call
OnlySendsInOneSpawn(c) ==
    /\ CountNodes(FuncBody, LAMBDA n : n.kind = "GoStmt") = 1
    /\ Len(InlineSpawnsOf(FuncBody)) = 1
    /\ SendsOn(c) >= 2
    /\ CountNodes(SpawnBody(InlineSpawnsOf(FuncBody)[1]),
            LAMBDA n : n.kind = "SendStmt" /\ Chan(n) = Ident(c)) = SendsOn(c)
    /\ CountNodes(FuncBody, LAMBDA n : n.kind = "SendStmt" \/ IsArrow(n)) = SendsOn(c)
    /\ ~HasNode(FuncBody, LAMBDA n : n.kind = "SelectStmt")
    /\ \A m \in MutexNames : ~HasNode(FuncBody, LAMBDA n : IsMutexSel(n, m))

C28_SpawnOpsTalliedTwice ==
    pc = "done" =>
        /\ \A c \in ChannelNames :
              /\ TallyCount(TalliesOf(FuncBody).channelOps, c, "send") = SendsOn(c)
              /\ TallyCount(TalliesOf(FuncBody).channelOps, c, "receive") = ReceivesOn(c)
              /\ OnlySendsInOneSpawn(c) =>
                    /\ Len(bugFindings) = 2
                    /\ Len(MisuseOn(c)) = 2
        /\ \A m \in MutexNames :
              /\ TallyCount(TalliesOf(FuncBody).mutexOps, m, "lock") >= 2 * LockCallsOn(m)
              /\ TallyCount(TalliesOf(FuncBody).mutexOps, m, "unlock") >= 2 * UnlockCallsOn(m)

\* go func() { ch <- 1; ch <- 1 }(): the misuse of ch is reported twice
C28_Witness ==
    /\ pc = "done"
    /\ OnlySendsInOneSpawn(S_ch)
    /\ SendsOn(S_ch) = 2
    /\ Len(MisuseOn(S_ch)) = 2

(***************************************************************************)
(* Execute over a request of several files.  The parser port is a fixed     *)
(* file system: four files that parse and one that does not.                *)
(***************************************************************************)
RECURSIVE AnalyzeDecls(_, _)
\* analyzeFile's loop over the declarations, from the accumulated locals acc
AnalyzeDecls(decls, acc) ==
    IF decls = <<>> THEN acc
    ELSE LET decl == Head(decls)
             complexity == CalculateComplexity(decl)
         IN  AnalyzeDecls(Tail(decls),
                IF decl.kind # "FuncDecl" THEN acc
                ELSE IF complexity.err
                THEN [acc EXCEPT !.functionCount = @ + 1]
                ELSE [findings |->
                          IF IsHighComplexity(complexity.score)
                          THEN Append(acc.findings, ComplexityFinding(decl, complexity.score))
                          ELSE acc.findings,
                      functionCount |-> acc.functionCount + 1,
                      totalCyclomatic |-> acc.totalCyclomatic + complexity.score.cyclomatic,
                      totalCognitive |-> acc.totalCognitive + complexity.score.cognitive])

\* DetectLeaks: the findings of the collected spawns, in order
DetectLeaks(node) == FindingsOfSpawns(CollectGoroutines(node))

\* DetectSmells: the finding lists it can return
DetectSmells(node, cfg) ==
    {MergeFindings(
        MergeFindings(StructuralSmells(Preorder(node), cfg),
                      [findings |-> DetectLeaks(node), err |-> FALSE]),
        [findings |-> bugs, err |-> FALSE]) : bugs \in DetectBugs(node)}

\* analyzeFile after a successful parse: the results it can return
AnalyzeFile(astFile, cfg, includeSmells) ==
    LET acc == AnalyzeDecls(astFile.kids, NoFileResult)
    IN  IF includeSmells
        THEN {[acc EXCEPT !.findings = @ \o smellFindings] :
                 smellFindings \in DetectSmells(astFile, cfg)}
        ELSE {acc}

FilePaths == {"sends.go", "long.go", "deep.go", "types.go", "bad.go"}

\* what the parser returns for each path
ParseFile(filePath) ==
    CASE filePath = "sends.go" ->
            [tree |-> Program(<<Send(S_ch1), Send(S_ch1), Send(S_ch2), Send(S_ch2)>>),
             err |-> FALSE]
      [] filePath = "long.go" -> [tree |-> SpanProgram(<<ReturnStmt>>, 81), err |-> FALSE]
      [] filePath = "deep.go" ->
            [tree |-> SpanProgram(<<NestWith(5, 1, "if")>>, 90), err |-> FALSE]
      [] filePath = "types.go" ->
            [tree |-> File(<<GenDecl(<<TypeSpec(S_T, 1, StructOf(11))>>)>>), err |-> FALSE]
      [] OTHER -> [tree |-> File(<<>>), err |-> TRUE]

ExecuteInit ==
    /\ tree = File(<<>>)
    /\ config = DefaultAnalysisConfiguration
    /\ pc = "Execute"
    /\ DetectorsIdle
    /\ AnalysisIdle
    /\ ScoreIdle
    /\ request \in [filePaths : SeqsFromTo(FilePaths, 1, MaxFiles),
                     includeSmellDetection : BOOLEAN]
    /\ execution = ExecuteLocals
    /\ result = NewAnalysisResult("id", config).result
    /\ lastAdd = NoAdd
    /\ response = NoResponse

\* the path the loop over request.FilePaths is at
CurrentPath == request.filePaths[execution.fileIndex]

\* Execute, a round of the loop over the files: analyzeFile returns a result
AnalyzeFileStep ==
    /\ pc = "Execute"
    /\ execution.fileIndex <= Len(request.filePaths)
    /\ ~ParseFile(CurrentPath).err
    /\ \E fileResult \in AnalyzeFile(ParseFile(CurrentPath).tree, config,
                                         request.includeSmellDetection) :
          execution' = [execution EXCEPT !.fileResult = fileResult, !.findingIndex = 1]
    /\ pc' = "AddFinding"
    /\ UNCHANGED <<tree, config, detectorVars, complexityVars, scoreVars>>
    /\ UNCHANGED <<request, result, lastAdd, response>>

\* Execute, a round of the loop over the files: analyzeFile fails to parse
\* the file and Execute returns
ParseFailure ==
    /\ pc = "Execute"
    /\ execution.fileIndex <= Len(request.filePaths)
    /\ ParseFile(CurrentPath).err
    /\ response' = [returned |-> TRUE, analysisResult |-> ZeroResult, success |-> FALSE,
                    error |-> "failed to analyze file"]
    /\ pc' = "returned"
    /\ UNCHANGED <<tree, config, detectorVars, complexityVars, scoreVars>>
    /\ UNCHANGED <<request, execution, result, lastAdd>>

\* Execute, the loop over fileResult.Findings: one AddFinding call, whose
\* error Execute does not look at
AddFindingStep ==
    /\ pc = "AddFinding"
    /\ execution.findingIndex <= Len(execution.fileResult.findings)
    /\ LET finding == execution.fileResult.findings[execution.findingIndex]
           added == AddFinding(result, finding)
       IN  /\ result' = added.result
           /\ lastAdd' = [called |-> TRUE, finding |-> finding, err |-> added.err]
    /\ execution' = [execution EXCEPT !.findingIndex = @ + 1]
    /\ UNCHANGED <<tree, config, pc, detectorVars, complexityVars, scoreVars>>
    /\ UNCHANGED <<request, response>>

\* Execute, the end of a round: the totals and the analysed file
FileDone ==
    /\ pc = "AddFinding"
    /\ execution.findingIndex > Len(execution.fileResult.findings)
    /\ execution' =
          [execution EXCEPT
              !.totalFunctions = @ + execution.fileResult.functionCount,
              !.totalCyclomatic = @ + execution.fileResult.totalCyclomatic,
              !.totalCognitive = @ + execution.fileResult.totalCognitive,
              !.fileIndex = @ + 1]
    /\ result' = AddAnalyzedFile(result, CurrentPath)
    /\ pc' = "Execute"
    /\ UNCHANGED <<tree, config, detectorVars, complexityVars, scoreVars>>
    /\ UNCHANGED <<request, lastAdd, response>>

\* Execute after the loop: the aggregate metrics and the response
ExecuteReturn ==
    /\ pc = "Execute"
    /\ execution.fileIndex > Len(request.filePaths)
    /\ LET withComplexity ==
               IF execution.totalFunctions > 0
               THEN SetTotalComplexity(result,
                        NewComplexityScore(
                            execution.totalCyclomatic \div execution.totalFunctions,
                            execution.totalCognitive \div execution.totalFunctions).score)
               ELSE result
       IN  result' = Complete(SetTotalFunctions(withComplexity, execution.totalFunctions))
    /\ response' = [returned |-> TRUE, analysisResult |-> result', success |-> TRUE,
                    error |-> "nil"]
    /\ pc' = "returned"
    /\ UNCHANGED <<tree, config, detectorVars, complexityVars, scoreVars>>
    /\ UNCHANGED <<request, execution, lastAdd>>

ExecuteNext ==
    \/ AnalyzeFileStep \/ ParseFailure \/ AddFindingStep \/ FileDone \/ ExecuteReturn

ExecuteSpec == ExecuteInit /\ [][ExecuteNext]_vars

(***************************************************************************)
(* C26: a parse failure of one file aborts the analysis of that file only:  *)
(* when Execute returns after a failed parse, the response carries the      *)
(* error, and the findings already added for the files before the failing   *)
(* one are in the AnalysisResult of the response.                           *)
(***************************************************************************)
C26_ParseFailureKeepsOtherFindings ==
    (pc = "returned" /\ response.returned /\ ~response.success) =>
        /\ response.error # "nil"
        /\ response.analysisResult.findings = result.findings

(***************************************************************************)
(* C29: no produced finding is discarded between the detectors and the      *)
(* result: every finding of a file result that Execute hands to AddFinding  *)
(* is appended to the findings of the result.                               *)
(***************************************************************************)
C29_EveryProducedFindingKept ==
    [][AddFindingStep =>
          result'.findings = Append(result.findings, lastAdd'.finding)]_vars

(***************************************************************************)
(* The configuration value and its with-X operations, called in any order   *)
(* with any argument.                                                       *)
(***************************************************************************)
ZeroConfiguration ==
    [maxCyclomaticComplexity |-> 0, maxCognitiveComplexity |-> 0,
     maxFunctionLength |-> 0, enableSmellDetection |-> FALSE,
     severityThreshold |-> "Info"]

NewAnalysisConfiguration(maxCyclomatic, maxCognitive, maxLength, enableSmells, severity) ==
    IF maxCyclomatic < 1 \/ maxCognitive < 0 \/ maxLength < 1
    THEN [config |-> ZeroConfiguration, err |-> TRUE]
    ELSE [config |->
              [maxCyclomaticComplexity |-> maxCyclomatic,
               maxCognitiveComplexity |-> maxCognitive,
               maxFunctionLength |-> maxLength,
               enableSmellDetection |-> enableSmells,
               severityThreshold |-> severity],
          err |-> FALSE]

\* the integer arguments tried
Args27 == -1 .. MaxArg

ConfigInit ==
    /\ tree = File(<<>>)
    /\ pc = "configure"
    /\ DetectorsIdle
    /\ AnalysisIdle
    /\ ScoreIdle
    /\ \/ config = DefaultAnalysisConfiguration
       \/ \E a, b, c \in Args27, e \in BOOLEAN :
             /\ ~NewAnalysisConfiguration(a, b, c, e, "Warning").err
             /\ config = NewAnalysisConfiguration(a, b, c, e, "Warning").config
    /\ ExecuteIdle

WithMaxCyclomaticComplexityCall ==
    /\ pc = "configure"
    /\ \E max \in Args27 : config' = WithMaxCyclomaticComplexity(config, max)
    /\ UNCHANGED <<tree, pc, detectorVars, complexityVars, scoreVars, executeVars>>

WithMaxCognitiveComplexityCall ==
    /\ pc = "configure"
    /\ \E max \in Args27 : config' = WithMaxCognitiveComplexity(config, max)
    /\ UNCHANGED <<tree, pc, detectorVars, complexityVars, scoreVars, executeVars>>

WithMaxFunctionLengthCall ==
    /\ pc = "configure"
    /\ \E max \in Args27 : config' = WithMaxFunctionLength(config, max)
    /\ UNCHANGED <<tree, pc, detectorVars, complexityVars, scoreVars, executeVars>>

WithSmellDetectionCall ==
    /\ pc = "configure"
    /\ \E enabled \in BOOLEAN : config' = WithSmellDetection(config, enabled)
    /\ UNCHANGED <<tree, pc, detectorVars, complexityVars, scoreVars, executeVars>>

ConfigNext ==
    \/ WithMaxCyclomaticComplexityCall
    \/ WithMaxCognitiveComplexityCall
    \/ WithMaxFunctionLengthCall
    \/ WithSmellDetectionCall

ConfigSpec == ConfigInit /\ [][ConfigNext]_vars

(***************************************************************************)
(* C27: every configuration reachable from the default or from a            *)
(* successful NewAnalysisConfiguration through with-X operations has        *)
(* maxCyclomatic >= 1, maxCognitive >= 0 and maxFunctionLength >= 1.        *)
(***************************************************************************)
C27_ConfigurationBounds ==
    pc = "configure" =>
        /\ config.maxCyclomaticComplexity >= 1
        /\ config.maxCognitiveComplexity >= 0
        /\ config.maxFunctionLength >= 1

(***************************************************************************)
(* The AnalysisResult aggregate on its own: its mutators called in any      *)
(* order, AddFinding with findings whose ids collide.                       *)
(***************************************************************************)
\* the findings offered: MaxIds ids, two findings of different severity per id
FindingPool ==
    {NewAnalysisFinding(<<"complexity", S_test, l>>, "Complexity", l, "message", severity) :
        l \in 1..MaxIds, severity \in {"Warning", "Error"}}

ResultInit ==
    /\ tree = File(<<>>)
    /\ config = DefaultAnalysisConfiguration
    /\ pc = "AnalysisResult"
    /\ DetectorsIdle
    /\ AnalysisIdle
    /\ ScoreIdle
    /\ ExecuteIdle

AddFindingCall ==
    /\ pc = "AnalysisResult"
    /\ Len(result.findings) <= MaxIds
    /\ \E finding \in FindingPool :
          LET added == AddFinding(result, finding)
          IN  /\ result' = added.result
              /\ lastAdd' = [called |-> TRUE, finding |-> finding, err |-> added.err]
    /\ UNCHANGED <<tree, config, pc, detectorVars, complexityVars, scoreVars>>
    /\ UNCHANGED <<request, execution, response>>

AddAnalyzedFileCall ==
    /\ pc = "AnalysisResult"
    /\ \E filePath \in {"sends.go", "long.go"} :
          result' = AddAnalyzedFile(result, filePath)
    /\ UNCHANGED <<tree, config, pc, detectorVars, complexityVars, scoreVars>>
    /\ UNCHANGED <<request, execution, lastAdd, response>>

SetTotalFunctionsCall ==
    /\ pc = "AnalysisResult"
    /\ \E count \in 1..2 : result' = SetTotalFunctions(result, count)
    /\ UNCHANGED <<tree, config, pc, detectorVars, complexityVars, scoreVars>>
    /\ UNCHANGED <<request, execution, lastAdd, response>>

ResultNext == AddFindingCall \/ AddAnalyzedFileCall \/ SetTotalFunctionsCall

ResultSpec == ResultInit /\ [][ResultNext]_vars

(***************************************************************************)
(* C30: the findings an AnalysisResult holds always have pairwise distinct  *)
(* ids; an AddFinding call whose id is absent appends the finding at the    *)
(* end and changes nothing else, so the findings stay in insertion order;   *)
(* a call whose id is present returns an error and leaves the findings, the *)
(* analysed files and all counters as they were.                            *)
(***************************************************************************)
IdPresent(ar, id) == \E i \in DOMAIN ar.findings : ar.findings[i].id = id

C30_AddFindingDistinctInOrder ==
    /\ [](\A i, j \in DOMAIN result.findings :
             i # j => result.findings[i].id # result.findings[j].id)
    /\ [][AddFindingCall =>
             IF IdPresent(result, lastAdd'.finding.id)
             THEN lastAdd'.err /\ result' = result
             ELSE /\ ~lastAdd'.err
                  /\ result'.findings = Append(result.findings, lastAdd'.finding)
                  /\ result' = [result EXCEPT !.findings = result'.findings]]_vars

\* a duplicate was rejected by a result that holds two findings, an analysed
\* file and a function count
C30_Witness ==
    /\ pc = "AnalysisResult"
    /\ lastAdd.called
    /\ lastAdd.err
    /\ Len(result.findings) >= 2
    /\ \E i \in DOMAIN result.findings :
          /\ result.findings[i].id = lastAdd.finding.id
          /\ result.findings[i] # lastAdd.finding
    /\ result.totalFiles > 0
    /\ result.totalFunctions > 0

====
